---- MODULE Spec2Model ----
(***************************************************************************)
(* Trade-simulation and risk-management core of the meme-bot repository:   *)
(* BacktestEngine (src/backtest/engine.py) driven by its run loop, and     *)
(* PaperTrader (src/app/paper_trader.py) driven by its callers.            *)
(*                                                                         *)
(* Numbers.  The code computes in floating point.  Here every amount is a  *)
(* fixed-point integer: money and unit counts in 1/1000 (200.0 dollars is  *)
(* 200000), prices in 1/1000 (1.00 is 1000), market caps in units of       *)
(* 10,000 (1,000,000 is 100).  A quotient is truncated to that grid.       *)
(* Comparisons against a ratio (roi >= 0.40) are cross-multiplied, so      *)
(* they are exact.  The float quotient of the code can fall one rounding   *)
(* short of a ratio that is met exactly ((1.4 - 1.0) / 1.0 is              *)
(* 0.3999999999999999), so the prices fed here lie off the 40% threshold:  *)
(* on them the exact comparison and the float comparison agree.            *)
(* Times are minutes; a calendar day is 1440 minutes.                      *)
(*                                                                         *)
(* Inputs.  `signals` and `price_data` are arguments of run().  They are   *)
(* revealed lazily: the time of signals[signal_idx] is known (the jump of  *)
(* the loop reads it), its token, score and price are drawn when the loop  *)
(* reaches it, and the sample of a token at the current minute is drawn    *)
(* when _update_trades looks it up.  Token "A" has a path from min_time to *)
(* max_time (with gaps); token "B" has no path at all or a path of one     *)
(* sample, fixed at construction of the run.                               *)
(***************************************************************************)
EXTENDS Integers, Sequences, FiniteSets, TLC

VARIABLES
    engine,               \* "bt": a BacktestEngine inside run(); "pt": a PaperTrader
    capital,              \* self.capital
    trades,               \* self.trades: every trade ever opened, in order
    active_trades,        \* self.active_trades: indices into trades, in list order
    equity,               \* BacktestEngine.equity
    daily_start_equity,   \* BacktestEngine.daily_start_equity
    current_day,          \* BacktestEngine.current_day (NoDay is None)
    daily_loss_limit_hit, \* BacktestEngine.daily_loss_limit_hit
    equity_curve,         \* BacktestEngine.equity_curve
    min_time,             \* run(): min_time, the earliest index of price_data
    current_time,         \* run(): current_time
    n_signals,            \* run(): len(signals)
    signal_idx,           \* run(): signal_idx
    next_sig_time,        \* run(): signals[signal_idx].signal_time, NoSignal past the end
    is_new_day,           \* run(): is_new_day
    b_path,               \* run(): price_data["B"]
    px,                   \* run(): the samples of price_data at current_time, as looked up;
                          \* update_trades(): current_data_map of the last call
    pc,                   \* position in run() / liveness of the PaperTrader
    now,                  \* PaperTrader: datetime.utcnow(), in minutes
    updates,              \* PaperTrader.update_trades: the list it returned last
    sells,                \* log of the _close_trade / _partial_close calls so far
    trader,               \* the module-level PaperTrader the fields are of: "safe"
                          \* (safe_trader, alias paper_trader) or "degen" (degen_trader)
    last,                 \* the application's last operation on the trader: what it
                          \* returned, the market cap DexScreener had, what failed
    gen                   \* MarketSimulator: the last _generate_price_path call

vars == << engine, capital, trades, active_trades, equity, daily_start_equity,
           current_day, daily_loss_limit_hit, equity_curve, min_time,
           current_time, n_signals, signal_idx, next_sig_time, is_new_day, b_path, px, pc, now, updates,
           sells, trader, last, gen >>

----------------------------------------------------------------------------
(* Bounds of the explored inputs: a run lasts Horizon minutes and is fed
   either at most RichSignals signals or MaxSignals of them *)

Horizon == 3
MaxSignals == 5
RichSignals == 1

(* Program constants *)

InitialCapital == 200000
MaxConcurrent == 4
MinutesPerDay == 1440
TimeExitMins == 90
StartTimes == {MinutesPerDay - 3, MinutesPerDay - 1}

NoDay == -1
NoSignal == -1
NoSample == 0
NoPath == [last_idx |-> -1, last_price |-> 0, aligned |-> TRUE]

Tokens == {"A", "B"}
max_time == min_time + Horizon

Min(a, b) == IF a < b THEN a ELSE b
Max(a, b) == IF a > b THEN a ELSE b

(* Fixed-point product and quotient of two amounts on the 1/1000 grid *)
Mul(a, b) == (a * b) \div 1000
Quo(a, b) == (a * 1000) \div b

Day(t) == t \div MinutesPerDay

(* list.remove(x): drops the first occurrence of x *)
RECURSIVE Remove(_, _)
Remove(s, x) ==
    IF s = << >> THEN << >>
    ELSE IF Head(s) = x THEN Tail(s)
    ELSE << Head(s) >> \o Remove(Tail(s), x)

----------------------------------------------------------------------------
(* BacktestEngine *)

SignalKinds == { <<"A", 75, 1000>>, <<"A", 80, 1000>>, <<"A", 85, 1000>>,
                 <<"A", 90, 1000>>, <<"A", 90, 0>>, <<"B", 90, 1000>> }
Prices == {400, 1000, 1500, 2000, 3000}
SigTimes == {min_time - 100, min_time, min_time + 1, min_time + Horizon}
BPaths == {NoPath} \cup
          { [last_idx |-> t, last_price |-> p, aligned |-> TRUE] :
               t \in {min_time + 1}, p \in {600, 1500} }
(* Paths as generate_data builds them, one sample a minute from a signal time
   that falls between two minutes of the clock: the samples are half a minute
   after min_time, min_time + 1, ..., last_idx, all at last_price *)
OffGridPaths == { [last_idx |-> t, last_price |-> p, aligned |-> FALSE] :
                    t \in {min_time + 1}, p \in {600, 1500} }

(* The account and its positions, as one _update_trades / update_trades call
   threads them through its loop *)
Account(t) == [capital |-> capital, trades |-> trades, active |-> active_trades,
               hit |-> daily_loss_limit_hit, sells |-> sells, log |-> << >>,
               raised |-> FALSE, clock |-> t]

(* Trade(...) as _process_signal constructs it *)
Trade(sig, pos_size_usd, units, initial_sl_pct) ==
    [ token_address |-> sig.token_address,
      entry_price |-> sig.price_at_signal,
      entry_time |-> sig.signal_time,
      position_size_usd |-> pos_size_usd,
      entry_score |-> sig.signal_score,
      current_units |-> units,
      realized_pnl |-> 0,
      status |-> "OPEN",
      ath_price |-> sig.price_at_signal,
      stop_loss_price |-> (sig.price_at_signal * (1000 - initial_sl_pct)) \div 1000,
      tp1_hit |-> FALSE, tp2_hit |-> FALSE, tp3_hit |-> FALSE,
      exit_reason |-> "", exit_time |-> NoDay ]

(* risk_pct with the buckets opening above 90 and above 85 *)
RiskPct_strict(score) == IF score > 90 THEN 25 ELSE IF score > 85 THEN 20 ELSE 15

(* risk_pct by score bucket, in 1/1000 *)
RiskPct(score) == IF score >= 90 THEN 25 ELSE IF score >= 85 THEN 20 ELSE 15

InitialSlPct == 150

(* pos_size_usd: risk_amount / initial_sl_pct, capped at the capital *)
PosSizeUsd(cap, score) ==
    LET risk_amount == cap * RiskPct(score)
        pos_size_usd == risk_amount \div InitialSlPct
    IN IF pos_size_usd > cap THEN cap ELSE pos_size_usd

(* _close_trade that does not credit the proceeds to the capital *)
BacktestEngine_close_trade_no_credit(st, i, price, time, reason) ==
    LET trade == st.trades[i]
        proceeds == Mul(trade.current_units, price)
        cost == Mul(trade.current_units, trade.entry_price)
    IN [st EXCEPT
          !.trades[i] = [trade EXCEPT !.realized_pnl = @ + (proceeds - cost),
                                      !.current_units = 0,
                                      !.status = "CLOSED",
                                      !.exit_reason = reason,
                                      !.exit_time = time],
          !.active = Remove(@, i),
          !.sells = Append(@, [trade |-> i, reason |-> reason, time |-> st.clock,
                               units |-> trade.current_units,
                               proceeds |-> proceeds, cost |-> cost])]

(* _close_trade that leaves current_units as they were *)
BacktestEngine_close_trade_keeps_units(st, i, price, time, reason) ==
    LET trade == st.trades[i]
        proceeds == Mul(trade.current_units, price)
        cost == Mul(trade.current_units, trade.entry_price)
    IN [st EXCEPT
          !.capital = @ + proceeds,
          !.trades[i] = [trade EXCEPT !.realized_pnl = @ + (proceeds - cost),
                                      !.status = "CLOSED",
                                      !.exit_reason = reason,
                                      !.exit_time = time],
          !.active = Remove(@, i),
          !.sells = Append(@, [trade |-> i, reason |-> reason, time |-> st.clock,
                               units |-> trade.current_units,
                               proceeds |-> proceeds, cost |-> cost])]

BacktestEngine_close_trade(st, i, price, time, reason) ==
    LET trade == st.trades[i]
        proceeds == Mul(trade.current_units, price)
        cost == Mul(trade.current_units, trade.entry_price)
    IN [st EXCEPT
          !.capital = @ + proceeds,
          !.trades[i] = [trade EXCEPT !.realized_pnl = @ + (proceeds - cost),
                                      !.current_units = 0,
                                      !.status = "CLOSED",
                                      !.exit_reason = reason,
                                      !.exit_time = time],
          !.active = Remove(@, i),
          !.sells = Append(@, [trade |-> i, reason |-> reason, time |-> st.clock,
                               units |-> trade.current_units,
                               proceeds |-> proceeds, cost |-> cost])]

BacktestEngine_partial_close(st, i, pct_of_initial, price, reason) ==
    LET trade == st.trades[i]
        initial_units == Quo(trade.position_size_usd, trade.entry_price)
        wanted == (initial_units * pct_of_initial) \div 100
        units_to_sell == IF wanted > trade.current_units
                         THEN trade.current_units ELSE wanted
        proceeds == Mul(units_to_sell, price)
        cost == Mul(units_to_sell, trade.entry_price)
    IN [st EXCEPT
          !.capital = @ + proceeds,
          !.trades[i] = [trade EXCEPT !.current_units = @ - units_to_sell,
                                      !.realized_pnl = @ + (proceeds - cost)],
          !.sells = Append(@, [trade |-> i, reason |-> reason, time |-> st.clock,
                               units |-> units_to_sell,
                               proceeds |-> proceeds, cost |-> cost])]

(* The prices the paths of a run draw from: a run of few signals is fed every
   price and paths with gaps, a run of many signals the two prices around the
   entry price, a path of "A" without gaps and no path of "B" *)
FeedPrices == IF n_signals <= RichSignals THEN Prices ELSE {600, 1500}
FeedKinds == IF n_signals <= RichSignals THEN SignalKinds
             ELSE { <<"A", 75, 1000>>, <<"A", 90, 1000>>, <<"A", 90, 0>>,
                    <<"B", 90, 1000>> }

(* price_data.get(token): the last index and last sample of the token's path,
   and whether its timestamps are minutes of the clock *)
PathOf(tok) ==
    IF tok = "B" THEN b_path
    ELSE [last_idx |-> max_time, last_price |-> NoSample, aligned |-> TRUE]

(* The samples price_data may hold at minute t.  A path is only looked up for
   a token with an active trade; the path of "A" spans min_time..max_time, so
   it has a sample at both ends. *)
SamplesAt(t) ==
    LET a_active == \E k \in 1..Len(active_trades) :
                        trades[active_trades[k]].token_address = "A"
        a_choices == IF ~a_active THEN {NoSample}
                     ELSE IF t \in {min_time, max_time} \/ n_signals > RichSignals
                     THEN FeedPrices
                     ELSE FeedPrices \cup {NoSample}
        b_sample == IF b_path # NoPath /\ b_path.aligned /\ t = b_path.last_idx
                    THEN b_path.last_price ELSE NoSample
    IN { [tok \in Tokens |-> IF tok = "A" THEN pa ELSE b_sample] : pa \in a_choices }

(* Phase 2 that raises the stop to the entry price after 15 minutes *)
HardStop_to_entry(stop_loss_price, entry, minutes_in) ==
    IF minutes_in > 15
    THEN IF stop_loss_price > entry THEN stop_loss_price ELSE entry
    ELSE stop_loss_price

(* Phase 2 that sets the stop to 30% below entry whatever it was *)
HardStop_unconditional(stop_loss_price, entry, minutes_in) ==
    LET hard_stop == (entry * 70) \div 100
    IN IF minutes_in > 15 THEN hard_stop ELSE stop_loss_price

(* Phase 2 of the stop: after 15 minutes the stop is at least 30% below entry *)
HardStop(stop_loss_price, entry, minutes_in) ==
    LET hard_stop == (entry * 70) \div 100
    IN IF minutes_in > 15
       THEN IF stop_loss_price > hard_stop THEN stop_loss_price ELSE hard_stop
       ELSE stop_loss_price

(* A trailing stop without activation threshold and without the comparison:
   the stop is always 35% below the peak *)
TrailingStop_always(stop_loss_price, entry, ath) == (ath * 65) \div 100

(* A trailing stop computed from the entry price instead of the peak *)
TrailingStop_from_entry(stop_loss_price, entry, ath) ==
    LET trail_stop == (entry * 65) \div 100
    IN IF (ath - entry) * 100 >= 40 * entry /\ trail_stop > stop_loss_price
       THEN trail_stop ELSE stop_loss_price

(* Trailing stop: once the peak is 40% above entry the stop follows 35% below it *)
TrailingStop(stop_loss_price, entry, ath) ==
    LET trail_stop == (ath * 65) \div 100
    IN IF (ath - entry) * 100 >= 40 * entry /\ trail_stop > stop_loss_price
       THEN trail_stop ELSE stop_loss_price

(* A take-profit rule that sells without recording that the tier was hit *)
BacktestTakeProfit_no_flag(st, i, roi, threshold, flag, pct, price, reason) ==
    IF roi >= threshold * st.trades[i].entry_price /\ ~st.trades[i][flag]
    THEN BacktestEngine_partial_close(st, i, pct, price, reason)
    ELSE st

(* One take-profit rule of _update_trades: roi is roi x 100 x entry, flag the
   trade's tpN_hit field, pct the share of the initial units it sells *)
BacktestTakeProfit(st, i, roi, threshold, flag, pct, price, reason) ==
    IF roi >= threshold * st.trades[i].entry_price /\ ~st.trades[i][flag]
    THEN [BacktestEngine_partial_close(st, i, pct, price, reason)
            EXCEPT !.trades[i][flag] = TRUE]
    ELSE st

BacktestEngine_update_trade_closes_on_gap(st, i, t, samples, eq, dse) ==
    LET trade == st.trades[i]
        df == PathOf(trade.token_address)
        current_price == samples[trade.token_address]
        entry == trade.entry_price
    IN IF df = NoPath THEN st
       ELSE IF current_price = NoSample
       THEN IF t > trade.entry_time
            THEN BacktestEngine_close_trade(st, i, trade.entry_price, t, "END_OF_DATA")
            ELSE st
       ELSE
         LET ath == IF current_price > trade.ath_price
                    THEN current_price ELSE trade.ath_price
             minutes_in == t - trade.entry_time
             sl1 == HardStop(trade.stop_loss_price, entry, minutes_in)
             sl2 == TrailingStop(sl1, entry, ath)
             st1 == [st EXCEPT !.trades[i].ath_price = ath,
                               !.trades[i].stop_loss_price = sl2]
         IN IF current_price <= sl2
            THEN BacktestEngine_close_trade(st1, i, current_price, t, "STOP_LOSS")
            ELSE
              LET roi == (current_price - entry) * 100   \* roi x 100 x entry
                  tp1 == BacktestTakeProfit(st1, i, roi, 40, "tp1_hit", 50,
                                            current_price, "TP1")
                  st2 == IF roi >= 40 * entry /\ ~trade.tp1_hit
                         THEN [tp1 EXCEPT !.trades[i].stop_loss_price = Max(@, entry)]
                         ELSE tp1
                  st3 == BacktestTakeProfit(st2, i, roi, 100, "tp2_hit", 25,
                                            current_price, "TP2")
                  st4 == BacktestTakeProfit(st3, i, roi, 200, "tp3_hit", 15,
                                            current_price, "TP3")
              IN IF minutes_in >= TimeExitMins /\ -10 * entry <= roi /\ roi <= 20 * entry
                 THEN BacktestEngine_close_trade(st4, i, current_price, t, "TIME_EXIT")
                 ELSE [st4 EXCEPT !.hit = IF (eq - dse) * 10 < -dse THEN TRUE ELSE @]

(* The body of the loop of _update_trades, for the trade trades[i] *)
BacktestEngine_update_trade(st, i, t, samples, eq, dse) ==
    LET trade == st.trades[i]
        df == PathOf(trade.token_address)
        current_price == samples[trade.token_address]
        entry == trade.entry_price
    IN IF df = NoPath THEN st
       ELSE IF current_price = NoSample
       THEN IF t > df.last_idx
            THEN BacktestEngine_close_trade(st, i, df.last_price, df.last_idx, "END_OF_DATA")
            ELSE st
       ELSE
         LET ath == IF current_price > trade.ath_price
                    THEN current_price ELSE trade.ath_price
             minutes_in == t - trade.entry_time
             sl1 == HardStop(trade.stop_loss_price, entry, minutes_in)
             sl2 == TrailingStop(sl1, entry, ath)
             st1 == [st EXCEPT !.trades[i].ath_price = ath,
                               !.trades[i].stop_loss_price = sl2]
         IN IF current_price <= sl2
            THEN BacktestEngine_close_trade(st1, i, current_price, t, "STOP_LOSS")
            ELSE
              LET roi == (current_price - entry) * 100   \* roi x 100 x entry
                  tp1 == BacktestTakeProfit(st1, i, roi, 40, "tp1_hit", 50,
                                            current_price, "TP1")
                  st2 == IF roi >= 40 * entry /\ ~trade.tp1_hit
                         THEN [tp1 EXCEPT !.trades[i].stop_loss_price = Max(@, entry)]
                         ELSE tp1
                  st3 == BacktestTakeProfit(st2, i, roi, 100, "tp2_hit", 25,
                                            current_price, "TP2")
                  st4 == BacktestTakeProfit(st3, i, roi, 200, "tp3_hit", 15,
                                            current_price, "TP3")
              IN IF minutes_in >= TimeExitMins /\ -10 * entry <= roi /\ roi <= 20 * entry
                 THEN BacktestEngine_close_trade(st4, i, current_price, t, "TIME_EXIT")
                 ELSE [st4 EXCEPT !.hit = IF (eq - dse) * 10 < -dse THEN TRUE ELSE @]

(* for trade in list(self.active_trades): ... *)
RECURSIVE BacktestEngine_update_trades(_, _, _, _, _, _)
BacktestEngine_update_trades(st, snapshot, t, samples, eq, dse) ==
    IF snapshot = << >> THEN st
    ELSE BacktestEngine_update_trades(
             BacktestEngine_update_trade(st, Head(snapshot), t, samples, eq, dse),
             Tail(snapshot), t, samples, eq, dse)

(* current_unrealized_value of run(): the active trades that have a sample *)
RECURSIVE Unrealized(_, _, _)
Unrealized(trs, act, samples) ==
    IF act = << >> THEN 0
    ELSE LET tr == trs[Head(act)]
         IN (IF samples[tr.token_address] # NoSample
             THEN Mul(tr.current_units, samples[tr.token_address]) ELSE 0)
            + Unrealized(trs, Tail(act), samples)

(* _process_signal that does not look at daily_loss_limit_hit *)
BacktestEngine_process_signal_no_breaker(acc, sig) ==
    IF sig.signal_score < 80 THEN acc
    ELSE IF Len(acc.active) >= MaxConcurrent THEN acc
    ELSE
      LET pos_size_usd == PosSizeUsd(acc.capital, sig.signal_score)
          debited == [acc EXCEPT !.capital = @ - pos_size_usd]
      IN IF sig.price_at_signal = 0
         THEN [debited EXCEPT !.raised = TRUE]
         ELSE
           LET units == Quo(pos_size_usd, sig.price_at_signal)
               trade == Trade(sig, pos_size_usd, units, InitialSlPct)
           IN [debited EXCEPT !.trades = Append(@, trade),
                              !.active = Append(@, Len(acc.trades) + 1)]

(* _process_signal that compares the active count with > instead of >= *)
BacktestEngine_process_signal_off_by_one(acc, sig) ==
    IF sig.signal_score < 80 THEN acc
    ELSE IF Len(acc.active) > MaxConcurrent THEN acc
    ELSE IF acc.hit THEN acc
    ELSE
      LET pos_size_usd == PosSizeUsd(acc.capital, sig.signal_score)
          debited == [acc EXCEPT !.capital = @ - pos_size_usd]
      IN IF sig.price_at_signal = 0
         THEN [debited EXCEPT !.raised = TRUE]
         ELSE
           LET units == Quo(pos_size_usd, sig.price_at_signal)
               trade == Trade(sig, pos_size_usd, units, InitialSlPct)
           IN [debited EXCEPT !.trades = Append(@, trade),
                              !.active = Append(@, Len(acc.trades) + 1)]

(* _process_signal(sig) on the account acc: the account it leaves behind.
   Dividing by a price_at_signal of 0 raises ZeroDivisionError after the
   capital has been debited (raised = TRUE). *)
BacktestEngine_process_signal(acc, sig) ==
    IF sig.signal_score < 80 THEN acc
    ELSE IF Len(acc.active) >= MaxConcurrent THEN acc
    ELSE IF acc.hit THEN acc
    ELSE
      LET pos_size_usd == PosSizeUsd(acc.capital, sig.signal_score)
          debited == [acc EXCEPT !.capital = @ - pos_size_usd]
      IN IF sig.price_at_signal = 0
         THEN [debited EXCEPT !.raised = TRUE]
         ELSE
           LET units == Quo(pos_size_usd, sig.price_at_signal)
               trade == Trade(sig, pos_size_usd, units, InitialSlPct)
           IN [debited EXCEPT !.trades = Append(@, trade),
                              !.active = Append(@, Len(acc.trades) + 1)]

(* The signals of the list that may follow one with time t (the list is sorted) *)
NextSigTimes(t, idx) ==
    IF idx < n_signals THEN { s \in SigTimes : s >= t } ELSE {NoSignal}

Signals(t) ==
    { [ token_address |-> k[1], signal_time |-> t, signal_score |-> k[2],
        price_at_signal |-> k[3] ] : k \in FeedKinds }

PaperIdle == /\ now = 0
             /\ updates = << >>

(* get_stats() before any trade; the application has done nothing yet *)
NoStats == [trades |-> 0, wins |-> 0, losses |-> 0, win_rate |-> 0,
            balance |-> 0, roi |-> 0]
Op(name, raised, failed, mc, stats) ==
    [op |-> name, raised |-> raised, failed |-> failed, mc |-> mc, stats |-> stats]
NoOp == Op("none", FALSE, FALSE, 0, NoStats)
NoPathYet == [called |-> FALSE, raised |-> FALSE, start_time |-> 0, profile |-> "",
              index |-> << >>, price |-> << >>]
AppIdle == /\ trader = "safe"
           /\ last = NoOp
           /\ gen = NoPathYet

(* BacktestEngine(initial_capital) and the head of run(), up to the while loop *)
BacktestEngine_init(initial_capital) ==
    /\ engine = "bt"
    /\ capital = initial_capital
    /\ trades = << >>
    /\ active_trades = << >>
    /\ equity = initial_capital
    /\ daily_start_equity = initial_capital
    /\ current_day = NoDay
    /\ daily_loss_limit_hit = FALSE
    /\ equity_curve = << >>
    /\ min_time \in StartTimes
    /\ current_time = min_time
    /\ n_signals \in (0..RichSignals) \cup {MaxSignals}
    /\ signal_idx = 0
    /\ next_sig_time \in NextSigTimes(min_time - 100, 0)
    /\ is_new_day = FALSE
    /\ b_path \in (IF n_signals <= RichSignals THEN BPaths ELSE {NoPath})
    /\ px = [tok \in Tokens |-> NoSample]
    /\ pc = "day"
    /\ sells = << >>
    /\ PaperIdle
    /\ AppIdle

(* The default: BacktestEngine() *)
InitBacktest == BacktestEngine_init(InitialCapital)

(* A day reset that clears the breaker but keeps the old daily_start_equity *)
DayReset_keeps_start_equity ==
    /\ engine = "bt" /\ pc = "day"
    /\ current_time <= max_time
    /\ is_new_day' = (current_day # Day(current_time))
    /\ IF is_new_day'
       THEN /\ current_day' = Day(current_time)
            /\ daily_loss_limit_hit' = FALSE
            /\ UNCHANGED daily_start_equity
       ELSE UNCHANGED << current_day, daily_start_equity, daily_loss_limit_hit >>
    /\ pc' = "update"
    /\ UNCHANGED << engine, trader, last, gen, capital, trades, active_trades, equity, equity_curve,
                    current_time, min_time, n_signals, signal_idx, next_sig_time,
                    b_path, px, now, updates, sells >>

(* run(): 1. Day Reset Logic *)
DayReset ==
    /\ engine = "bt" /\ pc = "day"
    /\ current_time <= max_time
    /\ is_new_day' = (current_day # Day(current_time))
    /\ IF is_new_day'
       THEN /\ current_day' = Day(current_time)
            /\ daily_start_equity' = equity
            /\ daily_loss_limit_hit' = FALSE
       ELSE UNCHANGED << current_day, daily_start_equity, daily_loss_limit_hit >>
    /\ pc' = "update"
    /\ UNCHANGED << engine, trader, last, gen, capital, trades, active_trades, equity, equity_curve,
                    current_time, min_time, n_signals, signal_idx, next_sig_time,
                    b_path, px, now, updates, sells >>

UpdateTrades_any_order ==
    /\ engine = "bt" /\ pc = "update"
    /\ \E samples \in SamplesAt(current_time),
          snapshot \in { q \in [1..Len(active_trades) -> 1..Len(trades)] :
                           \A k \in 1..Len(active_trades) :
                               \E l \in 1..Len(active_trades) : q[l] = active_trades[k] } :
         LET st == BacktestEngine_update_trades(Account(current_time), snapshot, current_time,
                                                samples, equity, daily_start_equity)
         IN /\ px' = samples
            /\ capital' = st.capital
            /\ trades' = st.trades
            /\ active_trades' = st.active
            /\ daily_loss_limit_hit' = st.hit
            /\ sells' = st.sells
            /\ equity' = st.capital + Unrealized(st.trades, st.active, samples)
    /\ pc' = "signals"
    /\ UNCHANGED << engine, trader, last, gen, daily_start_equity, current_day, equity_curve,
                    min_time, current_time, n_signals, signal_idx, next_sig_time,
                    is_new_day, b_path, now, updates >>

(* run(): 2. Update Active Trades, then Calculate Equity *)
UpdateTrades ==
    /\ engine = "bt" /\ pc = "update"
    /\ \E samples \in SamplesAt(current_time) :
         LET st == BacktestEngine_update_trades(Account(current_time), active_trades, current_time,
                                                samples, equity, daily_start_equity)
         IN /\ px' = samples
            /\ capital' = st.capital
            /\ trades' = st.trades
            /\ active_trades' = st.active
            /\ daily_loss_limit_hit' = st.hit
            /\ sells' = st.sells
            /\ equity' = st.capital + Unrealized(st.trades, st.active, samples)
    /\ pc' = "signals"
    /\ UNCHANGED << engine, trader, last, gen, daily_start_equity, current_day, equity_curve,
                    min_time, current_time, n_signals, signal_idx, next_sig_time,
                    is_new_day, b_path, now, updates >>

(* An iteration of the signal loop after which the trades are advanced again
   in the same step *)
ProcessSignal_then_update ==
    /\ engine = "bt" /\ pc = "signals"
    /\ next_sig_time # NoSignal /\ next_sig_time <= current_time
    /\ \E sig \in Signals(next_sig_time) :
         LET st == BacktestEngine_process_signal(Account(current_time), sig)
         IN /\ capital' = st.capital
            /\ trades' = st.trades
            /\ active_trades' = st.active
            /\ IF st.raised
               THEN /\ pc' = "raised"
                    /\ UNCHANGED << signal_idx, next_sig_time >>
               ELSE /\ pc' = "update"
                    /\ signal_idx' = signal_idx + 1
                    /\ next_sig_time' \in NextSigTimes(next_sig_time, signal_idx + 1)
    /\ UNCHANGED << engine, trader, last, gen, equity, daily_start_equity, current_day,
                    daily_loss_limit_hit, equity_curve, min_time, current_time,
                    n_signals, is_new_day, b_path, px, now, updates, sells >>

(* run(): 3. Process New Signals, one iteration of the inner while loop *)
ProcessSignal ==
    /\ engine = "bt" /\ pc = "signals"
    /\ next_sig_time # NoSignal /\ next_sig_time <= current_time
    /\ \E sig \in Signals(next_sig_time) :
         LET st == BacktestEngine_process_signal(Account(current_time), sig)
         IN /\ capital' = st.capital
            /\ trades' = st.trades
            /\ active_trades' = st.active
            /\ IF st.raised
               THEN /\ pc' = "raised"
                    /\ UNCHANGED << signal_idx, next_sig_time >>
               ELSE /\ pc' = "signals"
                    /\ signal_idx' = signal_idx + 1
                    /\ next_sig_time' \in NextSigTimes(next_sig_time, signal_idx + 1)
    /\ UNCHANGED << engine, trader, last, gen, equity, daily_start_equity, current_day,
                    daily_loss_limit_hit, equity_curve, min_time, current_time,
                    n_signals, is_new_day, b_path, px, now, updates, sells >>

RecordEquity_jump_while_holding ==
    /\ engine = "bt" /\ pc = "signals"
    /\ ~(next_sig_time # NoSignal /\ next_sig_time <= current_time)
    /\ equity_curve' = Append(equity_curve,
                              [time |-> current_time, equity |-> equity,
                               capital |-> capital])
    /\ LET stepped == current_time + 1
           jump_to == next_sig_time - 1
       IN current_time' =
            IF /\ next_sig_time # NoSignal
               /\ next_sig_time > stepped
               /\ jump_to > stepped
            THEN jump_to ELSE stepped
    /\ pc' = "day"
    /\ UNCHANGED << engine, trader, last, gen, capital, trades, active_trades, equity,
                    daily_start_equity, current_day, daily_loss_limit_hit,
                    min_time, n_signals, signal_idx, next_sig_time, is_new_day,
                    b_path, px, now, updates, sells >>

(* run(): 4. Record Equity, the time step and the jump over a flat period *)
RecordEquity ==
    /\ engine = "bt" /\ pc = "signals"
    /\ ~(next_sig_time # NoSignal /\ next_sig_time <= current_time)
    /\ equity_curve' = Append(equity_curve,
                              [time |-> current_time, equity |-> equity,
                               capital |-> capital])
    /\ LET stepped == current_time + 1
           jump_to == next_sig_time - 1
       IN current_time' =
            IF /\ active_trades = << >>
               /\ next_sig_time # NoSignal
               /\ next_sig_time > stepped
               /\ jump_to > stepped
            THEN jump_to ELSE stepped
    /\ pc' = "day"
    /\ UNCHANGED << engine, trader, last, gen, capital, trades, active_trades, equity,
                    daily_start_equity, current_day, daily_loss_limit_hit,
                    min_time, n_signals, signal_idx, next_sig_time, is_new_day,
                    b_path, px, now, updates, sells >>

(* run(): the while condition fails, _generate_results() is returned *)
Finish ==
    /\ engine = "bt" /\ pc = "day"
    /\ current_time > max_time
    /\ pc' = "done"
    /\ UNCHANGED << engine, trader, last, gen, capital, trades, active_trades, equity,
                    daily_start_equity, current_day, daily_loss_limit_hit,
                    equity_curve, min_time, current_time, n_signals, signal_idx,
                    next_sig_time, is_new_day, b_path, px, now, updates, sells >>

NextBacktest == DayReset \/ UpdateTrades \/ ProcessSignal \/ RecordEquity \/ Finish

SpecBacktest == InitBacktest /\ [][NextBacktest]_vars

(* run() on price_data whose path of "B" is off the clock's grid: the clock
   starts at the first timestamp of the path of "A" and steps by one minute *)
InitOffGrid ==
    /\ engine = "bt"
    /\ capital = InitialCapital
    /\ trades = << >>
    /\ active_trades = << >>
    /\ equity = InitialCapital
    /\ daily_start_equity = InitialCapital
    /\ current_day = NoDay
    /\ daily_loss_limit_hit = FALSE
    /\ equity_curve = << >>
    /\ min_time \in StartTimes
    /\ current_time = min_time
    /\ n_signals \in (0..RichSignals) \cup {MaxSignals}
    /\ signal_idx = 0
    /\ next_sig_time \in NextSigTimes(min_time - 100, 0)
    /\ is_new_day = FALSE
    /\ b_path \in OffGridPaths
    /\ px = [tok \in Tokens |-> NoSample]
    /\ pc = "day"
    /\ sells = << >>
    /\ PaperIdle
    /\ AppIdle

SpecOffGrid == InitOffGrid /\ [][NextBacktest]_vars

----------------------------------------------------------------------------
(* PaperTrader *)

MaxPaperTrades == 5
RichTrades == 1
ClockValues == {0, 1, TimeExitMins + 1}

MaxTrades == 4
BasePotential == 2000

(* The pair dicts a caller passes: priceUsd in 1/1000, marketCap and
   liquidity.usd in units of 10,000; 0 stands for a missing key.  The second
   is MOCK_TOKEN of scripts/simulate_trade.py, the third has no market data. *)
PairKinds == { [priceUsd |-> 1000, marketCap |-> 100, liquidity_usd |-> 20],
               [priceUsd |-> 0, marketCap |-> 0, liquidity_usd |-> 15],
               [priceUsd |-> 1000, marketCap |-> 0, liquidity_usd |-> 0] }
MarketCaps == {70, 100, 130, 150, 170}

(* PaperTrade(...) as process_signal constructs it *)
PaperTrade(addr, mc, price_usd, position_size, units, t) ==
    [ token_address |-> addr,
      entry_mc |-> mc,
      entry_price_proxy |-> price_usd,
      entry_time |-> t,
      position_size_usd |-> position_size,
      risk_pct |-> 5,
      initial_units |-> units,
      current_units |-> units,
      base_potential |-> BasePotential,
      peak_mc |-> mc,
      status |-> "OPEN",
      tp_levels_hit |-> << >>,
      realized_pnl |-> 0,
      exit_reason |-> "",
      exit_time |-> NoDay ]

(* process_signal that sizes with the percentage 5 (as risk_pct=5.0) for 0.05 *)
PaperTrader_process_signal_percent(acc, addr, pair, t) ==
    IF Len(acc.active) >= MaxTrades THEN acc
    ELSE IF acc.capital <= 0 THEN acc
    ELSE
      LET price_usd == pair.priceUsd
          mc == IF pair.marketCap # 0 THEN pair.marketCap ELSE pair.liquidity_usd * 5
          position_size == acc.capital * 5
          units == IF price_usd # 0 THEN Quo(position_size, price_usd) ELSE 0
          trade == PaperTrade(addr, mc, price_usd, position_size, units, t)
      IN [acc EXCEPT !.capital = @ - position_size,
                     !.trades = Append(@, trade),
                     !.active = Append(@, Len(acc.trades) + 1)]

(* process_signal(signal_data, ...) on the account acc at time t *)
PaperTrader_process_signal(acc, addr, pair, t) ==
    IF Len(acc.active) >= MaxTrades THEN acc
    ELSE IF acc.capital <= 0 THEN acc
    ELSE
      LET price_usd == pair.priceUsd
          mc == IF pair.marketCap # 0 THEN pair.marketCap ELSE pair.liquidity_usd * 5
          position_size == (acc.capital * 50) \div 1000
          units == IF price_usd # 0 THEN Quo(position_size, price_usd) ELSE 0
          trade == PaperTrade(addr, mc, price_usd, position_size, units, t)
      IN [acc EXCEPT !.capital = @ - position_size,
                     !.trades = Append(@, trade),
                     !.active = Append(@, Len(acc.trades) + 1)]

(* _close_trade that stores the PnL of the last chunk instead of adding it *)
PaperTrader_close_trade_stays_active(st, i, current_mc, reason, t) ==
    LET trade == st.trades[i]
        exit_price_proxy == (trade.entry_price_proxy * current_mc) \div trade.entry_mc
        proceeds == Mul(trade.current_units, exit_price_proxy)
        cost_basis == Mul(trade.current_units, trade.entry_price_proxy)
        pnl == proceeds - cost_basis
    IN [st EXCEPT
          !.capital = @ + proceeds,
          !.trades[i] = [trade EXCEPT !.realized_pnl = @ + pnl,
                                      !.current_units = 0,
                                      !.status = "CLOSED",
                                      !.exit_reason = reason,
                                      !.exit_time = t],
          !.sells = Append(@, [trade |-> i, reason |-> reason, time |-> st.clock,
                               units |-> trade.current_units,
                               proceeds |-> proceeds, cost |-> cost_basis])]

PaperTrader_close_trade_overwrites(st, i, current_mc, reason, t) ==
    LET trade == st.trades[i]
        exit_price_proxy == (trade.entry_price_proxy * current_mc) \div trade.entry_mc
        proceeds == Mul(trade.current_units, exit_price_proxy)
        cost_basis == Mul(trade.current_units, trade.entry_price_proxy)
        pnl == proceeds - cost_basis
    IN [st EXCEPT
          !.capital = @ + proceeds,
          !.trades[i] = [trade EXCEPT !.realized_pnl = pnl,
                                      !.current_units = 0,
                                      !.status = "CLOSED",
                                      !.exit_reason = reason,
                                      !.exit_time = t],
          !.active = Remove(@, i),
          !.sells = Append(@, [trade |-> i, reason |-> reason, time |-> st.clock,
                               units |-> trade.current_units,
                               proceeds |-> proceeds, cost |-> cost_basis])]

PaperTrader_close_trade(st, i, current_mc, reason, t) ==
    LET trade == st.trades[i]
        exit_price_proxy == (trade.entry_price_proxy * current_mc) \div trade.entry_mc
        proceeds == Mul(trade.current_units, exit_price_proxy)
        cost_basis == Mul(trade.current_units, trade.entry_price_proxy)
        pnl == proceeds - cost_basis
    IN [st EXCEPT
          !.capital = @ + proceeds,
          !.trades[i] = [trade EXCEPT !.realized_pnl = @ + pnl,
                                      !.current_units = 0,
                                      !.status = "CLOSED",
                                      !.exit_reason = reason,
                                      !.exit_time = t],
          !.active = Remove(@, i),
          !.sells = Append(@, [trade |-> i, reason |-> reason, time |-> st.clock,
                               units |-> trade.current_units,
                               proceeds |-> proceeds, cost |-> cost_basis])]

(* A partial close that sells twice the fraction asked for *)
PaperTrader_partial_close_twice(st, i, pct_to_sell, current_mc, reason) ==
    LET trade == st.trades[i]
        wanted == (trade.initial_units * 2 * pct_to_sell) \div 100
        units_to_sell == IF wanted > trade.current_units
                         THEN trade.current_units ELSE wanted
        exit_price_proxy == (trade.entry_price_proxy * current_mc) \div trade.entry_mc
        proceeds == Mul(units_to_sell, exit_price_proxy)
        cost_basis == Mul(units_to_sell, trade.entry_price_proxy)
        pnl == proceeds - cost_basis
    IN [st EXCEPT
          !.capital = @ + proceeds,
          !.trades[i] = [trade EXCEPT !.realized_pnl = @ + pnl,
                                      !.current_units = @ - units_to_sell],
          !.sells = Append(@, [trade |-> i, reason |-> reason, time |-> st.clock,
                               units |-> units_to_sell,
                               proceeds |-> proceeds, cost |-> cost_basis])]

PaperTrader_partial_close(st, i, pct_to_sell, current_mc, reason) ==
    LET trade == st.trades[i]
        wanted == (trade.initial_units * pct_to_sell) \div 100
        units_to_sell == IF wanted > trade.current_units
                         THEN trade.current_units ELSE wanted
        exit_price_proxy == (trade.entry_price_proxy * current_mc) \div trade.entry_mc
        proceeds == Mul(units_to_sell, exit_price_proxy)
        cost_basis == Mul(units_to_sell, trade.entry_price_proxy)
        pnl == proceeds - cost_basis
    IN [st EXCEPT
          !.capital = @ + proceeds,
          !.trades[i] = [trade EXCEPT !.realized_pnl = @ + pnl,
                                      !.current_units = @ - units_to_sell],
          !.sells = Append(@, [trade |-> i, reason |-> reason, time |-> st.clock,
                               units |-> units_to_sell,
                               proceeds |-> proceeds, cost |-> cost_basis])]

(* One take-profit rule of update_trades: level is the tag kept in
   tp_levels_hit, pct the share of the initial units it sells *)
PaperTakeProfit_strict(st, i, used, level, pct, current_mc, reason) ==
    IF used > level /\ ~(\E k \in 1..Len(st.trades[i].tp_levels_hit) :
                              st.trades[i].tp_levels_hit[k] = level)
    THEN [PaperTrader_partial_close(st, i, pct, current_mc, reason)
            EXCEPT !.trades[i].tp_levels_hit = Append(@, level),
                   !.log = Append(@, << "TP", i, pct >>)]
    ELSE st

PaperTakeProfit(st, i, used, level, pct, current_mc, reason) ==
    IF used >= level /\ ~(\E k \in 1..Len(st.trades[i].tp_levels_hit) :
                              st.trades[i].tp_levels_hit[k] = level)
    THEN [PaperTrader_partial_close(st, i, pct, current_mc, reason)
            EXCEPT !.trades[i].tp_levels_hit = Append(@, level),
                   !.log = Append(@, << "TP", i, pct >>)]
    ELSE st

(* The body of the loop of update_trades, for the trade trades[i].  An
   entry_mc of 0 raises ZeroDivisionError (raised = TRUE) after the peak has
   been updated. *)
PaperTrader_update_trade(st, i, current_data_map, t) ==
    LET trade == st.trades[i]
        current_mc == current_data_map[trade.token_address]
    IN IF current_mc = 0 THEN st
       ELSE
         LET st1 == [st EXCEPT !.trades[i].peak_mc = Max(@, current_mc)]
         IN IF trade.entry_mc = 0 THEN [st1 EXCEPT !.raised = TRUE]
            ELSE
              LET target_mc == (trade.entry_mc * trade.base_potential) \div 1000
                  \* pct_used x 100, exact: target_mc - entry_mc divides it here
                  used == IF trade.base_potential <= 1000 THEN 0
                          ELSE ((current_mc - trade.entry_mc) * 100)
                                  \div (target_mc - trade.entry_mc)
                  duration_mins == t - trade.entry_time
              IN IF (trade.entry_mc - current_mc) * 100 >= 30 * trade.entry_mc
                 THEN [PaperTrader_close_trade(st1, i, current_mc, "STOP_LOSS_30_PCT", t)
                         EXCEPT !.log = Append(@, << "CLOSE", i >>)]
                 ELSE IF duration_mins > TimeExitMins /\ used < 30
                 THEN [PaperTrader_close_trade(st1, i, current_mc, "TIME_EXIT_STAGNANT", t)
                         EXCEPT !.log = Append(@, << "CLOSE", i >>)]
                 ELSE
                   LET st2 == PaperTakeProfit(st1, i, used, 30, 20, current_mc, "TP_30_PCT")
                       st3 == PaperTakeProfit(st2, i, used, 50, 25, current_mc, "TP_50_PCT")
                   IN PaperTakeProfit(st3, i, used, 70, 30, current_mc, "TP_70_PCT")

(* for trade in list(self.active_trades): ..., left at the first exception *)
RECURSIVE PaperTrader_update_trades(_, _, _, _)
PaperTrader_update_trades(st, snapshot, current_data_map, t) ==
    IF snapshot = << >> \/ st.raised THEN st
    ELSE PaperTrader_update_trades(
             PaperTrader_update_trade(st, Head(snapshot), current_data_map, t),
             Tail(snapshot), current_data_map, t)

(* The maps update_trades may be called with: token_address -> current_mc,
   0 for a token that is absent or maps to 0 / None.  Every paper trade is on
   token "A"; a run of many calls is fed the two market caps around the entry. *)
DataMaps ==
    LET caps == IF n_signals <= RichTrades THEN MarketCaps ELSE {70, 130}
        a_choices == IF active_trades = << >> THEN {0} ELSE {0} \cup caps
    IN { [tok \in Tokens |-> IF tok = "A" THEN c ELSE 0] : c \in a_choices }

(* The pairs process_signal is called with: a run of few calls, and the first
   two calls of every run, draw from every kind of pair, the later calls of a
   run of many calls from the well-formed pair of "A" *)
GoodPair == [priceUsd |-> 1000, marketCap |-> 100, liquidity_usd |-> 20]
Pairs == IF n_signals <= RichTrades \/ signal_idx <= 1
         THEN {"A"} \X PairKinds
         ELSE {<< "A", GoodPair >>}

(* PaperTrader(initial_capital) *)
PaperTrader_init(initial_capital) ==
    /\ engine = "pt"
    /\ capital = initial_capital
    /\ trades = << >>
    /\ active_trades = << >>
    /\ sells = << >>
    /\ pc = "ready"
    /\ now = 0
    /\ updates = << >>
    /\ equity = initial_capital
    /\ daily_start_equity = initial_capital
    /\ current_day = NoDay
    /\ daily_loss_limit_hit = FALSE
    /\ equity_curve = << >>
    /\ min_time = 0
    /\ current_time = 0
    /\ n_signals \in (0..RichTrades) \cup {MaxPaperTrades}
    /\ signal_idx = 0
    /\ next_sig_time = NoSignal
    /\ is_new_day = FALSE
    /\ b_path = NoPath
    /\ px = [tok \in Tokens |-> NoSample]

(* The module's traders: PaperTrader(initial_capital=200.0) *)
InitPaper == PaperTrader_init(InitialCapital) /\ AppIdle

(* A caller invokes process_signal *)
PaperProcessSignal ==
    /\ engine = "pt"
    /\ signal_idx < n_signals
    /\ signal_idx' = signal_idx + 1
    /\ \E signal_data \in Pairs :
         LET st == PaperTrader_process_signal(Account(now), signal_data[1], signal_data[2], now)
         IN /\ capital' = st.capital
            /\ trades' = st.trades
            /\ active_trades' = st.active
    /\ pc' = "ready"
    /\ UNCHANGED << engine, trader, last, gen, equity, daily_start_equity, current_day,
                    daily_loss_limit_hit, equity_curve, min_time, current_time,
                    n_signals, next_sig_time, is_new_day, b_path, px,
                    now, updates, sells >>

(* A caller invokes update_trades; an exception leaves it without a result *)
PaperUpdateTrades ==
    /\ engine = "pt"
    /\ \E current_data_map \in DataMaps :
         LET st == PaperTrader_update_trades(Account(now), active_trades, current_data_map, now)
         IN /\ capital' = st.capital
            /\ trades' = st.trades
            /\ active_trades' = st.active
            /\ sells' = st.sells
            /\ updates' = IF st.raised THEN updates ELSE st.log
            /\ pc' = IF st.raised THEN "raised" ELSE "ready"
            /\ px' = current_data_map
    /\ UNCHANGED << engine, trader, last, gen, equity, daily_start_equity, current_day,
                    daily_loss_limit_hit, equity_curve, min_time, current_time,
                    n_signals, signal_idx, next_sig_time, is_new_day, b_path,
                    now >>

(* The clock readings of a run: a run of many calls is made at the start and
   after the time-exit delay *)
Clock == IF n_signals <= RichTrades THEN ClockValues ELSE {0, TimeExitMins + 1}

(* Time passes between two calls: datetime.utcnow() grows *)
PaperTick ==
    /\ engine = "pt"
    /\ \E t \in Clock : /\ t > now
                        /\ now' = t
    /\ UNCHANGED << engine, trader, last, gen, capital, trades, active_trades, equity,
                    daily_start_equity, current_day, daily_loss_limit_hit,
                    equity_curve, min_time, current_time, n_signals, signal_idx,
                    next_sig_time, is_new_day, b_path, px, pc, updates, sells >>

NextPaper == PaperProcessSignal \/ PaperUpdateTrades \/ PaperTick

SpecPaper == InitPaper /\ [][NextPaper]_vars

----------------------------------------------------------------------------
Init == InitBacktest \/ InitPaper

Next == NextBacktest \/ NextPaper

Spec == Init /\ [][Next]_vars

(* Both engines constructed with initial_capital = 0 *)
InitNoCapital == BacktestEngine_init(0) \/ (PaperTrader_init(0) /\ AppIdle)

SpecNoCapital == InitNoCapital /\ [][Next]_vars

----------------------------------------------------------------------------
(* The application around the traders: the scheduler loop, the Telegram
   command handlers, and callers that open positions *)

(* f"{x:.1f}" and f"{x:.2f}": x = n / d rounded to the nearest unit *)
Round(n, d) == (2 * n + d) \div (2 * d)

PaperTrader_get_stats_counts_open ==
    LET wins == Cardinality({ i \in 1..Len(trades) :
                    trades[i].realized_pnl > 0 /\ trades[i].status = "CLOSED" })
        losses == Cardinality({ i \in 1..Len(trades) :
                    trades[i].realized_pnl <= 0 })
    IN [trades |-> Len(trades), wins |-> wins, losses |-> losses,
        win_rate |-> IF wins + losses > 0 THEN Round(wins * 1000, wins + losses) ELSE 0,
        balance |-> Round(capital, 10),
        roi |-> Round((capital - InitialCapital) * 1000, InitialCapital)]

(* PaperTrader.get_stats(): balance in cents, roi and win_rate in tenths of
   a percent *)
PaperTrader_get_stats ==
    LET wins == Cardinality({ i \in 1..Len(trades) :
                    trades[i].realized_pnl > 0 /\ trades[i].status = "CLOSED" })
        losses == Cardinality({ i \in 1..Len(trades) :
                    trades[i].realized_pnl <= 0 /\ trades[i].status = "CLOSED" })
    IN [trades |-> Len(trades), wins |-> wins, losses |-> losses,
        win_rate |-> IF wins + losses > 0 THEN Round(wins * 1000, wins + losses) ELSE 0,
        balance |-> Round(capital, 10),
        roi |-> Round((capital - InitialCapital) * 1000, InitialCapital)]

(* The traders of app/paper_trader.py, each PaperTrader(initial_capital=200.0);
   callers open at most AppTrades positions on one *)
AppTrades == 2
InitApp ==
    /\ engine = "pt"
    /\ capital = InitialCapital
    /\ trades = << >>
    /\ active_trades = << >>
    /\ sells = << >>
    /\ pc = "ready"
    /\ now = 0
    /\ updates = << >>
    /\ equity = InitialCapital
    /\ daily_start_equity = InitialCapital
    /\ current_day = NoDay
    /\ daily_loss_limit_hit = FALSE
    /\ equity_curve = << >>
    /\ min_time = 0
    /\ current_time = 0
    /\ n_signals \in {0, 1, AppTrades}
    /\ signal_idx = 0
    /\ next_sig_time = NoSignal
    /\ is_new_day = FALSE
    /\ b_path = NoPath
    /\ px = [tok \in Tokens |-> NoSample]
    /\ trader \in {"safe", "degen"}
    /\ last = NoOp
    /\ gen = NoPathYet

(* A Telegram command handler (cmd_balance_*, cmd_stats) reads get_stats() *)
GetStats ==
    /\ engine = "pt"
    /\ last' = Op("get_stats", FALSE, FALSE, 0, PaperTrader_get_stats)
    /\ UNCHANGED << engine, trader, gen, capital, trades, active_trades, equity,
                    daily_start_equity, current_day, daily_loss_limit_hit,
                    equity_curve, min_time, current_time, n_signals, signal_idx,
                    next_sig_time, is_new_day, b_path, px, pc, now, updates, sells >>

AppProcessSignal_rolls_back ==
    /\ engine = "pt"
    /\ signal_idx < n_signals
    /\ signal_idx' = signal_idx + 1
    /\ \E signal_data \in Pairs, failed \in BOOLEAN :
         LET st == PaperTrader_process_signal(Account(now), signal_data[1], signal_data[2], now)
         IN /\ capital' = IF failed THEN capital ELSE st.capital
            /\ trades' = IF failed THEN trades ELSE st.trades
            /\ active_trades' = IF failed THEN active_trades ELSE st.active
            /\ last' = Op("process_signal", FALSE, failed, 0, NoStats)
    /\ pc' = "ready"
    /\ UNCHANGED << engine, trader, gen, equity, daily_start_equity, current_day,
                    daily_loss_limit_hit, equity_curve, min_time, current_time,
                    n_signals, next_sig_time, is_new_day, b_path, px,
                    now, updates, sells >>

(* A caller opens a position on the trader and alerts, as process_pair means
   to and scripts/test_telegram_flow.py does: trader.process_signal(pair,
   analysis), then telegram_service.send_alert(..., paper_trade=trade), which
   may fail *)
AppProcessSignal ==
    /\ engine = "pt"
    /\ signal_idx < n_signals
    /\ signal_idx' = signal_idx + 1
    /\ \E signal_data \in Pairs, failed \in BOOLEAN :
         LET st == PaperTrader_process_signal(Account(now), signal_data[1], signal_data[2], now)
         IN /\ capital' = st.capital
            /\ trades' = st.trades
            /\ active_trades' = st.active
            /\ last' = Op("process_signal", FALSE, failed, 0, NoStats)
    /\ pc' = "ready"
    /\ UNCHANGED << engine, trader, gen, equity, daily_start_equity, current_day,
                    daily_loss_limit_hit, equity_curve, min_time, current_time,
                    n_signals, next_sig_time, is_new_day, b_path, px,
                    now, updates, sells >>

(* One pass of the loop of Scheduler.start: run_cycle(), then
   update_paper_trades().  In run_cycle a pair that qualifies for a strategy
   reaches paper_trader.safe_trader / paper_trader.degen_trader in
   process_pair; paper_trader is the PaperTrader imported at line 14, which
   has no such attribute, so the AttributeError leaves run_cycle and the pass
   skips update_paper_trades.  update_paper_trades reads paper_trader, the
   safe trader, alone: it returns when that has no active trade, else fetches
   the market caps, calls update_trades and sends one trade update per
   event.  failed: a collaborator call of the pass (the DB save of
   process_pair, a Telegram delivery) failed.  last.mc is the market cap
   DexScreener has for the token during the pass. *)
SchedulerCycle ==
    /\ engine = "pt"
    /\ \/ \E failed \in BOOLEAN, market \in DataMaps :
            /\ last' = Op("cycle", TRUE, failed, market["A"], NoStats)
            /\ UNCHANGED << capital, trades, active_trades, sells, updates, pc, px >>
       \/ /\ trader # "safe" \/ active_trades = << >>
          /\ \E failed \in BOOLEAN, market \in DataMaps :
               last' = Op("cycle", FALSE, failed, market["A"], NoStats)
          /\ UNCHANGED << capital, trades, active_trades, sells, updates, pc, px >>
       \/ /\ trader = "safe" /\ active_trades # << >>
          /\ \E failed \in BOOLEAN, market \in DataMaps :
               LET st == PaperTrader_update_trades(Account(now), active_trades, market, now)
               IN /\ capital' = st.capital
                  /\ trades' = st.trades
                  /\ active_trades' = st.active
                  /\ sells' = st.sells
                  /\ updates' = IF st.raised THEN updates ELSE st.log
                  /\ pc' = IF st.raised THEN "raised" ELSE "ready"
                  /\ px' = market
                  /\ last' = Op("cycle", st.raised, failed, market["A"], NoStats)
    /\ UNCHANGED << engine, trader, gen, equity, daily_start_equity, current_day,
                    daily_loss_limit_hit, equity_curve, min_time, current_time,
                    n_signals, signal_idx, next_sig_time, is_new_day, b_path,
                    now >>

NextApp == GetStats \/ AppProcessSignal \/ SchedulerCycle \/ PaperTick

SpecApp == InitApp /\ [][NextApp]_vars

-----------------------------------------------------------------------------
(* The synthetic price generator: MarketSimulator._generate_price_path.
   Returns and drifts are in 1/1000, prices in units of the floor
   0.00000001; a path has GenMinutes samples in place of the code's 1440. *)
GenMinutes == 3
PriceFloor == 1
RugReturn == -900
Profiles == {"moon", "dump", "chop", "volatile_up"}
(* np.random.normal(0, 0.02): any real, here a few of them, one below -1 *)
NoiseReturns == {-1500, -20, 20}
(* np.random.normal(0.0005, 0.01) *)
VolatileDrifts == {-10, 11}
(* random.uniform(0.0001, 0.01) of generate_data *)
GenStartPrices == {10000, 1000000}
GenStartTimes == {0, 7}

(* np.linspace(a, b, n) *)
linspace(a, b, n) ==
    [k \in 1..n |-> IF n = 1 THEN a ELSE a + ((b - a) * (k - 1)) \div (n - 1)]

(* pd.date_range(start_time, periods = minutes, freq = "1min") *)
date_range(start_time, periods) == [k \in 1..periods |-> start_time + (k - 1)]

(* The drift the loop zips with the returns: an array of one value per minute,
   or np.repeat(0, 1), an array of one element, for the int 0 of "chop" *)
Drift(profile, vol) ==
    CASE profile = "moon" -> linspace(0, 2, GenMinutes)
      [] profile = "dump" -> linspace(0, -3, GenMinutes)
      [] profile = "volatile_up" -> vol
      [] OTHER -> << 0 >>

(* returns[rug_idx] = -0.90 when the rug pull is drawn (rug_idx = 0: not drawn) *)
WithRug(returns, rug_idx) ==
    IF rug_idx = 0 THEN returns ELSE [returns EXCEPT ![rug_idx] = RugReturn]

(* The loop over zip(returns, drift): zip stops at the shorter of the two *)
RECURSIVE PriceSeries(_, _, _, _)
PriceSeries(price, returns, drift, k) ==
    IF k > Len(returns) \/ k > Len(drift) THEN << >>
    ELSE LET change == returns[k] + drift[k]
             new_price == (price * (1000 + change)) \div 1000
             kept == IF new_price > PriceFloor THEN new_price ELSE PriceFloor
         IN << kept >> \o PriceSeries(kept, returns, drift, k + 1)

(* pd.DataFrame({"price": values}, index = time_index) raises ValueError when
   the list is not as long as the index *)
MarketSimulator_generate_price_path(start_time, start_price, profile, noise, vol, rug_idx) ==
    LET time_index == date_range(start_time, GenMinutes)
        returns == WithRug(noise, rug_idx)
        values == PriceSeries(start_price, returns, Drift(profile, vol), 1)
    IN IF Len(values) # Len(time_index)
       THEN [called |-> TRUE, raised |-> TRUE, start_time |-> start_time,
             profile |-> profile, index |-> << >>, price |-> << >>]
       ELSE [called |-> TRUE, raised |-> FALSE, start_time |-> start_time,
             profile |-> profile, index |-> time_index, price |-> values]

(* run_backtest.py: the simulator generates before the engine runs *)
InitGenerator ==
    /\ BacktestEngine_init(InitialCapital)
    /\ n_signals = 0
    /\ b_path = NoPath

(* One call of _generate_price_path, on any draw of the random module *)
GeneratePricePath ==
    /\ ~gen.called
    /\ \E start_time \in GenStartTimes, start_price \in GenStartPrices,
          profile \in Profiles, noise \in [1..GenMinutes -> NoiseReturns],
          rug_idx \in 0..GenMinutes :
          \E vol \in IF profile = "volatile_up"
                      THEN [1..GenMinutes -> VolatileDrifts] ELSE {<< >>} :
             gen' = MarketSimulator_generate_price_path(start_time, start_price, profile,
                                                        noise, vol, rug_idx)
    /\ UNCHANGED << engine, capital, trades, active_trades, equity, daily_start_equity,
                    current_day, daily_loss_limit_hit, equity_curve, min_time,
                    current_time, n_signals, signal_idx, next_sig_time, is_new_day,
                    b_path, px, pc, now, updates, sells, trader, last >>

NextGenerator == GeneratePricePath

SpecGenerator == InitGenerator /\ [][NextGenerator]_vars

----------------------------------------------------------------------------
(* Properties *)

TradeIds == 1..Len(trades)
Backtest == engine = "bt"
Paper == engine = "pt"
SignalDue == next_sig_time # NoSignal /\ next_sig_time <= current_time

(* The units of trade i sold by the closes logged in log *)
RECURSIVE SoldUnits(_, _)
SoldUnits(log, i) ==
    IF log = << >> THEN 0
    ELSE (IF Head(log).trade = i THEN Head(log).units ELSE 0) + SoldUnits(Tail(log), i)

(* The initial units of trade i: the backtest derives them, the paper trade
   stores them *)
InitialUnits(i) ==
    IF Backtest THEN Quo(trades[i].position_size_usd, trades[i].entry_price)
    ELSE trades[i].initial_units

SellsOf(i, reason) == { k \in 1..Len(sells) : sells[k].trade = i /\ sells[k].reason = reason }
TakeProfitReasons == {"TP1", "TP2", "TP3", "TP_30_PCT", "TP_50_PCT", "TP_70_PCT"}

(* C1: the cash balance of either engine is never negative, after any
   process_signal, update of the trades, partial close or full close. *)
C1_CashNeverNegative == capital >= 0

(* A position has been opened, partly sold and another one closed, and cash
   is still below the initial capital *)
C1_Witness ==
    /\ Backtest
    /\ capital < InitialCapital
    /\ \E i, j \in TradeIds : /\ trades[i].status = "CLOSED"
                              /\ trades[j].status = "OPEN"
                              /\ trades[j].tp1_hit

(* C2: at most 4 positions are active in every state, and while 4 are active
   no step creates a position: a signal is admitted again only after one of
   them has closed. *)
C2_MaxConcurrent ==
    /\ [](Len(active_trades) <= 4)
    /\ [][Len(active_trades) >= 4 => Len(trades') = Len(trades)]_vars

(* Four positions are active and a fifth signal has been turned away *)
C2_Witness ==
    /\ Backtest
    /\ Len(active_trades) = 4
    /\ Len(trades) = 4
    /\ signal_idx = 5

(* C3: for every position, remaining units + units sold by its partial and
   full closes = initial units; remaining units are between 0 and the initial
   units and are 0 once the position is CLOSED. *)
C3_UnitsConserved ==
    \A i \in TradeIds :
        /\ trades[i].current_units + SoldUnits(sells, i) = InitialUnits(i)
        /\ trades[i].current_units >= 0
        /\ trades[i].current_units <= InitialUnits(i)
        /\ trades[i].status = "CLOSED" => trades[i].current_units = 0

(* A position that was sold in three pieces: two take-profits, then the close *)
C3_Witness ==
    \E i \in TradeIds :
        /\ trades[i].status = "CLOSED"
        /\ InitialUnits(i) > 0
        /\ Cardinality({ k \in 1..Len(sells) : sells[k].trade = i /\ sells[k].units > 0 }) >= 3

(* C4: the stop_loss_price of a backtest position never decreases from one
   step to the next. *)
C4_StopNeverDecreases ==
    [][Backtest => \A i \in TradeIds :
                      trades'[i].stop_loss_price >= trades[i].stop_loss_price]_vars

(* An open position older than 15 minutes whose stop has trailed above its
   entry price *)
C4_Witness ==
    /\ Backtest
    /\ \E i \in TradeIds : /\ trades[i].status = "OPEN"
                           /\ trades[i].stop_loss_price > trades[i].entry_price
                           /\ current_time - trades[i].entry_time > 15

(* C5: each take-profit tier of a position fires at most once: it is logged
   at most once among the sells of the position, so a later tick at the same
   value sells nothing for it. *)
C5_TierFiresOnce ==
    \A i \in TradeIds : \A r \in TakeProfitReasons : Cardinality(SellsOf(i, r)) <= 1

(* A backtest position whose TP1 fired at an earlier step has just been
   evaluated again at a price still 40% above entry, and is still open *)
C5_Witness ==
    /\ Backtest
    /\ pc = "signals"
    /\ \E i \in TradeIds :
         /\ trades[i].status = "OPEN"
         /\ \E k \in SellsOf(i, "TP1") : sells[k].time < current_time
         /\ px[trades[i].token_address] # NoSample
         /\ (px[trades[i].token_address] - trades[i].entry_price) * 100
               >= 40 * trades[i].entry_price

(* The value of the active positions at the samples of the current step *)
MarkToMarket == Unrealized(trades, active_trades, px)
LastSample == equity_curve[Len(equity_curve)]
Sampled == Backtest /\ pc = "day" /\ equity_curve # << >>

(* C6: every equity sample satisfies recorded equity = recorded capital +
   the value, at the current prices, of the positions active when it is
   appended.  (Stated for the samples at which every active position has a
   current price.) *)
C6_EquityIsMarkToMarket ==
    (Sampled /\ \A k \in 1..Len(active_trades) :
                     px[trades[active_trades[k]].token_address] # NoSample)
        => LastSample.equity = LastSample.capital + MarkToMarket

(* C7: when the equity computed by a step is more than 10% below
   daily_start_equity, the loss breaker is set before any later signal of the
   day is considered. *)
C7_BreakerBeforeSignals ==
    (Backtest /\ pc = "signals" /\ SignalDue
       /\ (equity - daily_start_equity) * 10 < -daily_start_equity)
        => daily_loss_limit_hit

(* C8: once tripped, the breaker stays tripped until the day reset of a new
   day, and while it is tripped the signal phase creates no position and
   leaves cash and the active set unchanged. *)
C8_BreakerHolds ==
    [][(Backtest /\ daily_loss_limit_hit) =>
         /\ daily_loss_limit_hit' \/ (pc = "day" /\ is_new_day')
         /\ pc = "signals" => UNCHANGED << capital, trades, active_trades >>]_vars

(* The breaker is tripped, a signal has been turned away in this step and the
   next one is due *)
C8_Witness ==
    /\ Backtest
    /\ daily_loss_limit_hit
    /\ pc = "signals"
    /\ Len(active_trades) < 4
    /\ signal_idx = n_signals
    /\ n_signals >= 2
    /\ current_time = min_time + Horizon

(* The step at current_time is the first one the loop executes in its day *)
FirstStepOfDay ==
    \A k \in 1..Len(equity_curve) : Day(equity_curve[k].time) # Day(current_time)

(* C9: at the first executed step of each calendar day, the first step of
   the run included, daily_start_equity is the current equity and the breaker
   is reset before any position is advanced and any signal admitted. *)
C9_DayReset ==
    (Backtest /\ pc = "update" /\ FirstStepOfDay)
        => /\ current_day = Day(current_time)
           /\ daily_start_equity = equity
           /\ ~daily_loss_limit_hit

(* The loop has jumped over midnight while flat: the first step of the new
   day is not the first minute of that day *)
C9_Witness ==
    /\ Backtest /\ pc = "update" /\ FirstStepOfDay
    /\ equity_curve # << >>
    /\ current_time > LastSample.time + 1
    /\ current_time > Day(current_time) * MinutesPerDay
    /\ is_new_day

(* C10: a signal with a non-positive reference value is rejected: the
   backtest step that hits price_at_signal = 0 leaves cash, trades and the
   active set as they were, and no paper position is ever created with a
   price or a market cap of 0. *)
C10_InvalidSignalRejected ==
    [][/\ (Backtest /\ pc' = "raised") => UNCHANGED << capital, trades, active_trades >>
       /\ Paper => \A i \in 1..Len(trades') :
                      /\ trades'[i].entry_price_proxy > 0
                      /\ trades'[i].entry_mc > 0]_vars

(* C11: process_signal creates no position when the cash balance is <= 0 (the
   computed size is then 0 as well): a step that considers a signal with no
   cash leaves cash, the trade list and the active set unchanged. *)
C11_NoCashNoPosition ==
    [][(capital <= 0 /\ signal_idx' # signal_idx)
          => UNCHANGED << capital, trades, active_trades >>]_vars

(* C12: a signal the backtest admits with cash C and score s opens a position
   of size min(C, C x r / 0.15), r = 2.5% for s >= 90, 2.0% for s >= 85, else
   1.5%; cash decreases by exactly that size, the initial units are size /
   entry price and the initial stop is 15% below the entry price. *)
C12_RiskTieredSizing ==
    [][(Backtest /\ Len(trades') = Len(trades) + 1) =>
         LET t == trades'[Len(trades')]
             r == IF t.entry_score >= 90 THEN 25
                  ELSE IF t.entry_score >= 85 THEN 20 ELSE 15
             size == Min(capital, (capital * r) \div 150)
         IN /\ t.position_size_usd = size
            /\ capital' = capital - size
            /\ t.current_units = (size * 1000) \div t.entry_price
            /\ t.stop_loss_price * 1000 = t.entry_price * 850
            /\ t.status = "OPEN"]_vars

(* A position of the middle bucket (score 85), opened with the whole initial
   capital as cash and sized at 2.0% / 0.15 of it *)
C12_Witness ==
    /\ Backtest
    /\ \E i \in TradeIds : /\ trades[i].entry_score = 85
                           /\ trades[i].position_size_usd * 150 > InitialCapital * 19
                           /\ trades[i].position_size_usd * 150 <= InitialCapital * 20
                           /\ capital = InitialCapital - trades[i].position_size_usd

(* The entry price of trade i: entry_price, or entry_price_proxy on paper *)
EntryPrice(i) ==
    IF Backtest THEN trades[i].entry_price ELSE trades[i].entry_price_proxy

(* Sum over the sells of trade i in log of proceeds - units sold x entry price *)
RECURSIVE SoldPnl(_, _)
SoldPnl(log, i) ==
    IF log = << >> THEN 0
    ELSE (IF Head(log).trade = i
          THEN Head(log).proceeds - Mul(Head(log).units, EntryPrice(i)) ELSE 0)
         + SoldPnl(Tail(log), i)

(* C13: the realized_pnl of every closed position, of either engine, is the
   sum over its partial closes and its final close of proceeds - cost basis,
   the cost basis of a sell being units sold x entry price. *)
C13_RealizedPnl ==
    \A i \in TradeIds :
        trades[i].status = "CLOSED" => trades[i].realized_pnl = SoldPnl(sells, i)

(* A paper position closed at a loss after a take-profit had sold a part of
   it at a gain *)
C13_Witness ==
    /\ Paper
    /\ \E i \in TradeIds :
         /\ trades[i].status = "CLOSED"
         /\ \E k, l \in 1..Len(sells) :
              /\ sells[k].trade = i /\ sells[k].proceeds > sells[k].cost
              /\ sells[l].trade = i /\ sells[l].proceeds < sells[l].cost

(* A step that runs _update_trades (backtest) / update_trades (paper) *)
BacktestTick == Backtest /\ pc = "update"
PaperCall == Paper /\ now' = now /\ signal_idx' = signal_idx

(* The reasons of the sells of trade i logged by the step, in order *)
NewReasons(i) ==
    LET new == SubSeq(sells', Len(sells) + 1, Len(sells'))
        RECURSIVE Of(_)
        Of(log) == IF log = << >> THEN << >>
                   ELSE (IF Head(log).trade = i THEN << Head(log).reason >> ELSE << >>)
                        \o Of(Tail(log))
    IN Of(new)

(* Trade i is active before the step *)
WasActive(i) == \E k \in 1..Len(active_trades) : active_trades[k] = i

(* The current value the step feeds trade i is at or below its stop level:
   the price is at most stop_loss_price as the tick sets it; the market cap
   is at most 70% of the entry market cap *)
AtStop(i) ==
    LET cur == px'[trades[i].token_address]
    IN /\ WasActive(i)
       /\ cur # NoSample
       /\ IF Backtest THEN BacktestTick /\ cur <= trades'[i].stop_loss_price
          ELSE PaperCall /\ trades[i].entry_mc > 0
                         /\ cur * 100 <= 70 * trades[i].entry_mc

(* C14: hard exit first.  A tick whose value is at or below the stop level of
   a position closes it with a stop-loss reason on that tick: the close is
   the only sell of the tick for that position (no take-profit tier fires, no
   time exit is applied). *)
C14_HardExitFirst ==
    [][\A i \in TradeIds :
          AtStop(i) =>
            /\ trades'[i].status = "CLOSED"
            /\ trades'[i].exit_reason = (IF Backtest THEN "STOP_LOSS" ELSE "STOP_LOSS_30_PCT")
            /\ NewReasons(i) = << trades'[i].exit_reason >>]_vars

(* The tick of the step evaluates trade i, open for more than 15 minutes,
   against a sample *)
TickAfter15(i) ==
    /\ BacktestTick /\ WasActive(i)
    /\ px'[trades[i].token_address] # NoSample
    /\ current_time - trades[i].entry_time > 15

(* C15: for a backtest position open for more than 15 minutes every tick
   leaves stop_loss_price >= 0.70 x entry, and a tick with price <= 0.70 x
   entry closes the position with STOP_LOSS. *)
C15_HardStopFloor ==
    [][\A i \in TradeIds :
          TickAfter15(i) =>
            /\ trades'[i].stop_loss_price * 100 >= 70 * trades[i].entry_price
            /\ px'[trades[i].token_address] * 100 <= 70 * trades[i].entry_price
                 => /\ trades'[i].status = "CLOSED"
                    /\ trades'[i].exit_reason = "STOP_LOSS"]_vars

(* A position open for more than 15 minutes was closed by its stop at a price
   at most 70% of its entry price *)
C15_Witness ==
    /\ Backtest
    /\ \E i \in TradeIds :
         /\ trades[i].exit_reason = "STOP_LOSS"
         /\ trades[i].exit_time - trades[i].entry_time > 15
         /\ \E k \in SellsOf(i, "STOP_LOSS") :
              sells[k].units > 0 /\ sells[k].proceeds * 100 <= 70 * sells[k].cost

(* C16: an open backtest position whose peak price is at least 40% above its
   entry price has stop_loss_price >= 0.65 x peak, after the tick that set
   the peak and on every later tick. *)
C16_TrailingStop ==
    \A i \in TradeIds :
        (Backtest /\ trades[i].status = "OPEN"
           /\ (trades[i].ath_price - trades[i].entry_price) * 100
                 >= 40 * trades[i].entry_price)
        => trades[i].stop_loss_price * 100 >= 65 * trades[i].ath_price

(* A position that peaked at twice its entry price has been evaluated at a
   lower price and is still open, its stop 35% below the peak *)
C16_Witness ==
    /\ Backtest /\ pc = "signals"
    /\ \E i \in TradeIds :
         /\ trades[i].status = "OPEN"
         /\ trades[i].ath_price >= 2 * trades[i].entry_price
         /\ px[trades[i].token_address] # NoSample
         /\ px[trades[i].token_address] < trades[i].ath_price
         /\ trades[i].stop_loss_price * 100 = 65 * trades[i].ath_price

(* The step evaluates trade i against a current value that is not at or
   below its stop level *)
TickAboveStop(i) ==
    /\ WasActive(i)
    /\ px'[trades[i].token_address] # NoSample
    /\ IF Backtest THEN BacktestTick ELSE PaperCall /\ trades[i].entry_mc > 0
    /\ ~AtStop(i)

(* Elapsed time of trade i at the step, and whether its progress lies in the
   stagnation band: -0.10 <= ROI <= 0.20, or potential_used < 0.30 *)
Elapsed(i) == (IF Backtest THEN current_time ELSE now) - trades[i].entry_time
InBand(i) ==
    LET cur == px'[trades[i].token_address]
    IN IF Backtest
       THEN /\ -10 * trades[i].entry_price <= (cur - trades[i].entry_price) * 100
            /\ (cur - trades[i].entry_price) * 100 <= 20 * trades[i].entry_price
       ELSE (cur - trades[i].entry_mc) * 1000 * 100
               < 30 * (trades[i].entry_mc * trades[i].base_potential
                         - trades[i].entry_mc * 1000)
TimeExitReasons == {"TIME_EXIT", "TIME_EXIT_STAGNANT"}

(* C17: a position that a tick does not stop out is closed by that tick with
   a TIME_EXIT reason when at least 90 minutes have elapsed and its progress
   lies in the stagnation band; before 90 minutes, or with progress outside
   the band, the tick applies no time exit. *)
C17_TimeExit ==
    [][\A i \in TradeIds :
          TickAboveStop(i) =>
            IF Elapsed(i) >= TimeExitMins /\ InBand(i)
            THEN /\ trades'[i].status = "CLOSED"
                 /\ trades'[i].exit_reason \in TimeExitReasons
            ELSE trades'[i].exit_reason \notin TimeExitReasons]_vars

(* The sells logged by the step, and the sum of their proceeds *)
NewSells == SubSeq(sells', Len(sells) + 1, Len(sells'))
RECURSIVE Proceeds(_)
Proceeds(log) == IF log = << >> THEN 0 ELSE Head(log).proceeds + Proceeds(Tail(log))

(* The tick finds no sample for trade i and the path of its token has ended *)
FeedEnded(i) ==
    /\ BacktestTick /\ WasActive(i)
    /\ PathOf(trades[i].token_address) # NoPath
    /\ px'[trades[i].token_address] = NoSample
    /\ current_time > PathOf(trades[i].token_address).last_idx

(* C18: a backtest tick that finds no sample for an open position whose last
   sample is earlier than the current step closes it with END_OF_DATA at the
   last sample's price, with the last sample's time as exit_time, and credits
   the proceeds to cash. *)
C18_EndOfData ==
    [][\A i \in TradeIds :
          FeedEnded(i) =>
            LET path == PathOf(trades[i].token_address)
            IN /\ trades'[i].status = "CLOSED"
               /\ trades'[i].exit_reason = "END_OF_DATA"
               /\ trades'[i].exit_time = path.last_idx
               /\ \E k \in 1..Len(NewSells) :
                    /\ NewSells[k].trade = i
                    /\ NewSells[k].units = trades[i].current_units
                    /\ NewSells[k].proceeds = Mul(trades[i].current_units, path.last_price)
               /\ capital' = capital + Proceeds(NewSells)]_vars

(* A position was closed with END_OF_DATA, for proceeds, at a step later than
   its exit_time *)
C18_Witness ==
    /\ Backtest /\ pc = "signals"
    /\ \E i \in TradeIds :
         /\ trades[i].exit_reason = "END_OF_DATA"
         /\ trades[i].exit_time < current_time
         /\ \E k \in SellsOf(i, "END_OF_DATA") :
              sells[k].time = current_time /\ sells[k].proceeds > 0

(* The step passes signals[signal_idx] to _process_signal *)
SignalPassed == Backtest /\ pc = "signals" /\ (signal_idx' # signal_idx \/ pc' = "raised")

(* The number of signals run() has passed to _process_signal *)
PassedCount == signal_idx + (IF pc = "raised" THEN 1 ELSE 0)

(* C19: run() passes the signals to _process_signal in non-decreasing
   signal_time order, each exactly once, at the first executed step whose
   time is >= its signal_time: not before its time, not after an executed
   step that was already due to take it, and when run() ends every signal (all
   are dated up to the last step) has been passed. *)
C19_SignalsInOrder ==
    /\ [][SignalPassed =>
            /\ next_sig_time <= current_time
            /\ equity_curve = << >> \/ LastSample.time < next_sig_time
            /\ next_sig_time' = NoSignal \/ next_sig_time' >= next_sig_time]_vars
    /\ []((Backtest /\ pc = "day" /\ equity_curve # << >>)
            => (next_sig_time = NoSignal \/ next_sig_time > LastSample.time))
    /\ []((Backtest /\ pc \in {"done", "raised"}) => PassedCount = n_signals)

(* The engine's fields *)
Fields == [capital |-> capital, trades |-> trades, active |-> active_trades,
           equity |-> equity, daily_start_equity |-> daily_start_equity,
           current_day |-> current_day, hit |-> daily_loss_limit_hit,
           equity_curve |-> equity_curve, sells |-> sells]

(* run(): 1. Day Reset Logic, on the fields e at time t *)
DayResetOf(e, t) ==
    IF e.current_day # Day(t)
    THEN [e EXCEPT !.current_day = Day(t), !.daily_start_equity = e.equity,
                   !.hit = FALSE]
    ELSE e

(* One pass of run()'s loop body at a minute t for which no signal is due,
   with the price samples the data holds at t *)
StepEveryMinute(e, t, samples) ==
    LET r == DayResetOf(e, t)
        st == BacktestEngine_update_trades(
                  [capital |-> r.capital, trades |-> r.trades, active |-> r.active,
                   hit |-> r.hit, sells |-> r.sells, log |-> << >>,
                   raised |-> FALSE, clock |-> t],
                  r.active, t, samples, r.equity, r.daily_start_equity)
        eq == st.capital + Unrealized(st.trades, st.active, samples)
    IN [r EXCEPT !.capital = st.capital, !.trades = st.trades,
                 !.active = st.active, !.hit = st.hit, !.sells = st.sells,
                 !.equity = eq,
                 !.equity_curve = Append(r.equity_curve,
                                         [time |-> t, equity |-> eq,
                                          capital |-> st.capital])]

(* Whatever the price data holds at one minute *)
AnySamples == [Tokens -> FeedPrices \cup {NoSample}]

(* The fields a run that steps every single minute can have at the top of
   step j, starting from one of the fields es at the top of step t *)
RECURSIVE EveryMinute(_, _, _)
EveryMinute(es, t, j) ==
    IF t >= j THEN es
    ELSE EveryMinute({ StepEveryMinute(e, t, samples) : e \in es, samples \in AnySamples },
                     t + 1, j)

(* run() ends a step with the jump *)
Jumped == Backtest /\ pc = "signals" /\ pc' = "day" /\ current_time' > current_time + 1

(* C20: the flat-period jump is safe.  When run() jumps from a step to a later
   minute j, no signal is due at any minute it skips, and a run that instead
   steps through every skipped minute, whatever the prices there, enters step
   j (once its day reset is done) with the same trades, sells, capital, equity
   and daily bookkeeping, and with the same equity samples at the steps the
   jumping run emitted; from there both execute the same code on the same
   fields. *)
C20_JumpSafe ==
    [][Jumped =>
        LET skipped == (current_time + 1)..(current_time' - 1)
            Emitted(smp) == smp.time \notin skipped
        IN /\ \A t \in skipped : next_sig_time > t
           /\ \A m \in EveryMinute({Fields'}, current_time + 1, current_time') :
                LET a == DayResetOf(m, current_time')
                    b == DayResetOf(Fields', current_time')
                IN /\ [a EXCEPT !.equity_curve = << >>] = [b EXCEPT !.equity_curve = << >>]
                   /\ Len(a.equity_curve) = Len(b.equity_curve) + Cardinality(skipped)
                   /\ SelectSeq(a.equity_curve, Emitted) = b.equity_curve]_vars

(* The run jumped over midnight and admitted a signal afterwards *)
C20_Witness ==
    /\ Backtest /\ trades # << >>
    /\ \E k \in 1..(Len(equity_curve) - 1) :
         /\ equity_curve[k + 1].time > equity_curve[k].time + 1
         /\ Day(equity_curve[k + 1].time) # Day(equity_curve[k].time)
         /\ trades[1].entry_time >= equity_curve[k + 1].time

(* The account of the fields e, as one call threads it through its loop *)
AccountOf(e, t) == [capital |-> e.capital, trades |-> e.trades, active |-> e.active,
                    hit |-> e.hit, sells |-> e.sells, log |-> << >>,
                    raised |-> FALSE, clock |-> t]

(* run(): 2. _update_trades and the equity calculation, on the fields e at
   time t with the price samples of that minute *)
UpdateOf(e, t, samples) ==
    LET st == BacktestEngine_update_trades(AccountOf(e, t), e.active, t, samples,
                                           e.equity, e.daily_start_equity)
    IN [e EXCEPT !.capital = st.capital, !.trades = st.trades,
                 !.active = st.active, !.hit = st.hit, !.sells = st.sells,
                 !.equity = st.capital + Unrealized(st.trades, st.active, samples)]

(* run(): 3. _process_signal(sig), on the fields e *)
ProcessOf(e, t, sig) ==
    LET st == BacktestEngine_process_signal(AccountOf(e, t), sig)
    IN [e EXCEPT !.capital = st.capital, !.trades = st.trades, !.active = st.active]

(* run(): 4. the equity sample appended at time t *)
RecordOf(e, t) ==
    [e EXCEPT !.equity_curve = Append(@, [time |-> t, equity |-> e.equity,
                                          capital |-> e.capital])]

(* run(): the time step and the jump, from the fields e, the step's time and
   the time of the next signal of the list *)
NextStepOf(e, t, sig_time) ==
    IF e.active = << >> /\ sig_time # NoSignal /\ sig_time > t + 1 /\ sig_time - 1 > t + 1
    THEN sig_time - 1 ELSE t + 1

(* C21: run() is deterministic.  A new engine starts from fixed fields, and
   every step of run() leaves the fields and the clock that follow from the
   fields before it, the step's time and the inputs read at that step (the
   price samples of the minute, the next signal of the list) and from nothing
   else, so two runs given the same signals and price paths go through the
   same fields and return the same equity curve and closed positions. *)
C21_Deterministic ==
    /\ (Backtest /\ current_day = NoDay)
          => Fields = [capital |-> InitialCapital, trades |-> << >>, active |-> << >>,
                       equity |-> InitialCapital,
                       daily_start_equity |-> InitialCapital,
                       current_day |-> NoDay, hit |-> FALSE,
                       equity_curve |-> << >>, sells |-> << >>]
    /\ [][Backtest =>
            \/ /\ pc = "day" /\ pc' = "update"
               /\ Fields' = DayResetOf(Fields, current_time)
               /\ current_time' = current_time
            \/ /\ pc = "update"
               /\ Fields' = UpdateOf(Fields, current_time, px')
               /\ current_time' = current_time
            \/ /\ SignalPassed
               /\ \E sig \in Signals(next_sig_time) :
                    Fields' = ProcessOf(Fields, current_time, sig)
               /\ current_time' = current_time
            \/ /\ pc = "signals" /\ pc' = "day"
               /\ Fields' = RecordOf(Fields, current_time)
               /\ current_time' = NextStepOf(Fields, current_time, next_sig_time)
            \/ /\ pc' = "done"
               /\ Fields' = Fields /\ current_time' = current_time]_vars

(* A run returned with two closed positions, one at a gain and one at a loss *)
C21_Witness ==
    /\ Backtest /\ pc = "done" /\ Len(equity_curve) >= 3
    /\ \E i, j \in TradeIds :
         /\ trades[i].status = "CLOSED" /\ trades[i].realized_pnl > 0
         /\ trades[j].status = "CLOSED" /\ trades[j].realized_pnl < 0

(* The update_trades call of the step gets as far as the checks of trade i:
   the map has a market cap for its token, and neither trade i nor an active
   trade walked before it makes the call raise *)
Evaluated(i) ==
    /\ PaperCall /\ WasActive(i)
    /\ px'[trades[i].token_address] # 0
    /\ trades[i].entry_mc > 0
    /\ \A k, l \in 1..Len(active_trades) :
          (k < l /\ active_trades[l] = i /\ px'[trades[active_trades[k]].token_address] # 0)
            => trades[active_trades[k]].entry_mc > 0

(* A take-profit level is in tp_levels_hit *)
LevelHit(trade, level) ==
    \E k \in 1..Len(trade.tp_levels_hit) : trade.tp_levels_hit[k] = level

(* C22: a paper tick that leaves a position open after the stop and time
   checks with potential_used >= 0.30 and the 30% tier not yet fired sells
   exactly 20% of the initial units at the tick's value, as the first sell of
   the tick for that position, credits the proceeds to cash and marks the
   tier fired. *)
C22_Tier30Fires ==
    [][\A i \in TradeIds :
          (Evaluated(i) /\ ~AtStop(i) /\ ~InBand(i) /\ ~LevelHit(trades[i], 30)) =>
            LET cur == px'[trades[i].token_address]
                sold == (trades[i].initial_units * 20) \div 100
                price == (trades[i].entry_price_proxy * cur) \div trades[i].entry_mc
            IN /\ LevelHit(trades'[i], 30)
               /\ trades'[i].status = "OPEN"
               /\ trades'[i].current_units <= trades[i].current_units - sold
               /\ NewReasons(i) # << >> /\ NewReasons(i)[1] = "TP_30_PCT"
               /\ \E k \in 1..Len(NewSells) :
                    /\ NewSells[k].trade = i /\ NewSells[k].reason = "TP_30_PCT"
                    /\ NewSells[k].units = sold
                    /\ NewSells[k].proceeds = Mul(sold, price)
               /\ capital' = capital + Proceeds(NewSells)]_vars

(* The example: entry market cap 1,000,000, current 1,300,000; the 30% tier
   alone has fired and 20% of the initial units are sold *)
C22_Witness ==
    /\ Paper /\ px["A"] = 130
    /\ \E i \in TradeIds :
         /\ trades[i].entry_mc = 100 /\ trades[i].base_potential = BasePotential
         /\ trades[i].tp_levels_hit = << 30 >>
         /\ trades[i].initial_units > 0
         /\ trades[i].current_units
               = trades[i].initial_units - (trades[i].initial_units * 20) \div 100
         /\ trades[i].realized_pnl > 0

(* The step is a get_stats() call *)
GetStatsCall == last'.op = "get_stats" /\ last' # last

(* The CLOSED trades of the trader *)
ClosedIds == { i \in TradeIds : trades[i].status = "CLOSED" }

(* C23: get_stats changes neither cash, the trade list nor the active set; it
   counts as wins the CLOSED positions with realized_pnl > 0 and as losses
   those with realized_pnl <= 0, so wins + losses is the number of CLOSED
   positions and open positions are in neither count; win_rate is 0 when no
   position is closed. *)
C23_GetStats ==
    /\ [][GetStatsCall => UNCHANGED << capital, trades, active_trades >>]_vars
    /\ [](last.op = "get_stats" =>
            /\ last.stats.wins
                 = Cardinality({ i \in ClosedIds : trades[i].realized_pnl > 0 })
            /\ last.stats.losses
                 = Cardinality({ i \in ClosedIds : trades[i].realized_pnl <= 0 })
            /\ last.stats.wins + last.stats.losses = Cardinality(ClosedIds)
            /\ last.stats.trades = Len(trades)
            /\ ClosedIds = {} => last.stats.win_rate = 0)

(* get_stats() was read with one position closed at a loss and one still open *)
C23_Witness ==
    /\ last.op = "get_stats"
    /\ last.stats.trades = 2 /\ last.stats.losses = 1 /\ last.stats.wins = 0
    /\ \E i \in TradeIds : trades[i].status = "OPEN" /\ trades[i].realized_pnl <= 0
    /\ capital # InitialCapital

(* The tick of the step finds no sample for the active trade i: no row at
   current_time in a path that has not ended, or no path at all; the token
   absent from current_data_map, or mapped to 0 *)
Gap(i) ==
    /\ WasActive(i)
    /\ px'[trades[i].token_address] = NoSample
    /\ IF Backtest
       THEN BacktestTick /\ (PathOf(trades[i].token_address) = NoPath
                                \/ current_time <= PathOf(trades[i].token_address).last_idx)
       ELSE PaperCall

(* C24: a tick that has no sample for an open position skips it: the
   position's fields (units, peak, stop level, tier flags, realized PnL,
   status) are unchanged, it stays active, the tick sells nothing of it, and
   cash is unchanged when the tick has no sample for any active position. *)
C24_DataGapSkips ==
    [][\A i \in TradeIds :
          Gap(i) =>
            /\ trades'[i] = trades[i]
            /\ \E k \in 1..Len(active_trades') : active_trades'[k] = i
            /\ NewReasons(i) = << >>
            /\ (\A j \in TradeIds : WasActive(j) => Gap(j)) => capital' = capital]_vars

(* A backtest tick found no sample for a position that had taken its first
   profit, while the path of its token goes on *)
C24_Witness ==
    /\ Backtest /\ pc = "signals" /\ current_time < max_time
    /\ px["A"] = NoSample
    /\ \E k \in 1..Len(active_trades) :
         /\ trades[active_trades[k]].token_address = "A"
         /\ trades[active_trades[k]].tp1_hit
         /\ trades[active_trades[k]].status = "OPEN"

(* C25: CLOSED is terminal.  A position is in the active set exactly when its
   status is OPEN; a CLOSED position has no units left and carries its exit
   reason and exit time; no step changes a field of a CLOSED position, so it
   stays CLOSED and out of the active set. *)
C25_ClosedIsTerminal ==
    /\ [](\A i \in TradeIds :
            /\ (\E k \in 1..Len(active_trades) : active_trades[k] = i)
                  <=> trades[i].status = "OPEN"
            /\ trades[i].status = "CLOSED" =>
                  /\ trades[i].current_units = 0
                  /\ trades[i].exit_reason # ""
                  /\ trades[i].exit_time # NoDay)
    /\ [][\A i \in TradeIds :
            trades[i].status = "CLOSED" => (Len(trades') >= i /\ trades'[i] = trades[i])]_vars

(* A tick ran on an active position after another position had been closed *)
C25_Witness ==
    \E i, j \in TradeIds :
        /\ trades[i].status = "CLOSED"
        /\ trades[j].status = "OPEN" /\ trades[j].entry_time >= trades[i].exit_time
        /\ IF Backtest THEN pc = "signals" /\ px[trades[j].token_address] # NoSample
                             /\ current_time > trades[i].exit_time
                             /\ trades[j].ath_price > trades[j].entry_price
           ELSE px["A"] # 0 /\ trades[j].peak_mc > trades[j].entry_mc

(* The step is an operation of the application during which a collaborator
   call (Telegram delivery, DB save) failed *)
CollaboratorFailed == last' # last /\ last'.failed

(* C26: a failure of alert delivery or of persistence leaves the simulated
   state as the trader committed it: after process_signal followed by a failed
   alert the cash, trade list and active set are those process_signal left;
   after a scheduler pass with a failed DB save or trade update they are
   those update_trades left on the fetched market caps, or untouched when the
   pass did not reach update_trades. *)
C26_FailureKeepsState ==
    [][CollaboratorFailed =>
         IF last'.op = "process_signal"
         THEN \E signal_data \in Pairs :
                LET st == PaperTrader_process_signal(Account(now), signal_data[1],
                                                     signal_data[2], now)
                IN /\ capital' = st.capital
                   /\ trades' = st.trades
                   /\ active_trades' = st.active
         ELSE \/ UNCHANGED << capital, trades, active_trades, sells >>
              \/ LET st == PaperTrader_update_trades(Account(now), active_trades, px', now)
                 IN /\ capital' = st.capital
                    /\ trades' = st.trades
                    /\ active_trades' = st.active
                    /\ sells' = st.sells]_vars

(* A scheduler pass closed a position of the safe trader and the delivery of
   the trade update failed *)
C26_Witness ==
    /\ trader = "safe" /\ last.op = "cycle" /\ last.failed /\ ~last.raised
    /\ updates # << >>
    /\ \E i \in TradeIds : trades[i].status = "CLOSED" /\ trades[i].exit_time = now
    /\ capital # InitialCapital

(* The step is one pass of the scheduler loop *)
CyclePassed == last' # last /\ last'.op = "cycle"

(* C27: every scheduler pass advances the trader, safe or degen: an active
   position whose token DexScreener has at or below 70% of the entry market
   cap during the pass is closed by that pass. *)
C27_CycleAdvancesBoth ==
    [][CyclePassed =>
         \A i \in TradeIds :
            (/\ WasActive(i)
             /\ last'.mc # 0
             /\ trades[i].entry_mc > 0
             /\ last'.mc * 100 <= 70 * trades[i].entry_mc)
              => trades'[i].status = "CLOSED"]_vars

(* The take-profit tiers in the order the code tests them: threshold on
   ROI x 100 (backtest) or potential_used x 100 (paper), and the percentage of
   the initial units sold *)
BacktestTiers == << [reason |-> "TP1", threshold |-> 40, pct |-> 50, flag |-> "tp1_hit"],
                    [reason |-> "TP2", threshold |-> 100, pct |-> 25, flag |-> "tp2_hit"],
                    [reason |-> "TP3", threshold |-> 200, pct |-> 15, flag |-> "tp3_hit"] >>
PaperTiers == << [reason |-> "TP_30_PCT", threshold |-> 30, pct |-> 20],
                 [reason |-> "TP_50_PCT", threshold |-> 50, pct |-> 25],
                 [reason |-> "TP_70_PCT", threshold |-> 70, pct |-> 30] >>

(* The tick of the step takes trade i as far as the take-profit rules *)
ReachesTakeProfit(i) ==
    IF Backtest
    THEN /\ BacktestTick /\ WasActive(i)
         /\ px'[trades[i].token_address] # NoSample
         /\ ~AtStop(i)
    ELSE /\ Evaluated(i) /\ ~AtStop(i)
         /\ ~(Elapsed(i) > TimeExitMins /\ InBand(i))

(* The tiers of trade i that have not fired and whose threshold the value of
   the tick meets, in ascending order *)
DueTiers(i) ==
    LET cur == px'[trades[i].token_address]
        BtDue(tier) == /\ (cur - trades[i].entry_price) * 100
                            >= tier.threshold * trades[i].entry_price
                       /\ ~trades[i][tier.flag]
        PtDue(tier) == /\ (cur - trades[i].entry_mc) * 1000 * 100
                            >= tier.threshold * (trades[i].entry_mc * trades[i].base_potential
                                                   - trades[i].entry_mc * 1000)
                       /\ ~LevelHit(trades[i], tier.threshold)
    IN IF Backtest THEN SelectSeq(BacktestTiers, BtDue) ELSE SelectSeq(PaperTiers, PtDue)

(* The take-profit sells of trade i logged by the step, and the take-profit
   events of trade i in the list update_trades returned *)
NewSellsOf(i) ==
    LET Mine(sell) == sell.trade = i /\ sell.reason \in TakeProfitReasons
    IN SelectSeq(NewSells, Mine)
TakeProfitEvents(i) ==
    LET Mine(event) == event[1] = "TP" /\ event[2] = i
    IN SelectSeq(updates', Mine)

(* C29: a tick that reaches the take-profit rules fires every tier that is
   due, all on that tick and in ascending order: the sells it logs for the
   position are exactly the due tiers in order, each of its own percentage of
   the initial units, each marked fired; in paper mode the returned list has
   one TP event per tier fired, in the same order. *)
C29_TiersSameTick ==
    [][\A i \in TradeIds :
          ReachesTakeProfit(i) =>
            LET due == DueTiers(i)
                sold == NewSellsOf(i)
                initial_units == IF Backtest
                                 THEN Quo(trades[i].position_size_usd, trades[i].entry_price)
                                 ELSE trades[i].initial_units
            IN /\ Len(sold) = Len(due)
               /\ \A k \in 1..Len(due) :
                    /\ sold[k].reason = due[k].reason
                    /\ sold[k].units = (initial_units * due[k].pct) \div 100
                    /\ IF Backtest THEN trades'[i][due[k].flag]
                       ELSE LevelHit(trades'[i], due[k].threshold)
               /\ Paper => /\ Len(TakeProfitEvents(i)) = Len(due)
                            /\ \A k \in 1..Len(due) :
                                 TakeProfitEvents(i)[k] = << "TP", i, due[k].pct >>]_vars

(* C28: whatever regime the generator picks, _generate_price_path returns a
   path of exactly as many samples as it has minutes, at consecutive minutes
   from the signal time, every price at least the floor. *)
C28_PathShape ==
    gen.called =>
        /\ ~gen.raised
        /\ Len(gen.price) = GenMinutes
        /\ Len(gen.index) = GenMinutes
        /\ \A k \in 1..Len(gen.index) : gen.index[k] = gen.start_time + (k - 1)
        /\ \A k \in 1..Len(gen.price) : gen.price[k] >= PriceFloor

(* C30: when run returns, every position the backtest admitted is CLOSED:
   the result holds no OPEN position and the active list is empty. *)
C30_AllClosedAtReturn ==
    (Backtest /\ pc = "done") =>
        /\ \A i \in TradeIds : trades[i].status = "CLOSED"
        /\ active_trades = << >>

(* The sample of the path of trade i's token that the tick of the step
   covers, the one later than the previous minute and no later than
   current_time: the sample looked up on a path aligned with the clock, the
   sample half a minute earlier on a path off the grid *)
CoveredSample(i) ==
    LET path == PathOf(trades[i].token_address)
    IN IF path = NoPath THEN NoSample
       ELSE IF path.aligned THEN px'[trades[i].token_address]
       ELSE IF current_time - 1 >= min_time /\ current_time - 1 <= path.last_idx
            THEN path.last_price ELSE NoSample

(* C31: a backtest tick that covers a sample of the path at or below the stop
   level of an open position, admitted at an earlier step, closes the position
   with STOP_LOSS: it is not open after the tick. *)
C31_StopBreachCloses ==
    [][\A i \in TradeIds :
          (/\ BacktestTick /\ WasActive(i)
           /\ CoveredSample(i) # NoSample
           /\ CoveredSample(i) <= trades[i].stop_loss_price)
            => /\ trades'[i].status = "CLOSED"
               /\ trades'[i].exit_reason = "STOP_LOSS"]_vars

(* The sum of realized_pnl over the closed positions *)
RECURSIVE RealizedPnl(_)
RealizedPnl(n) ==
    IF n = 0 THEN 0
    ELSE (IF trades[n].status = "CLOSED" THEN trades[n].realized_pnl ELSE 0)
         + RealizedPnl(n - 1)

(* The cost basis of the sells of trade i: units sold x entry price *)
RECURSIVE SoldCost(_, _)
SoldCost(log, i) ==
    IF log = << >> THEN 0
    ELSE (IF Head(log).trade = i THEN Head(log).cost ELSE 0) + SoldCost(Tail(log), i)

(* C32: in every state of either engine with no active position, the cash
   balance is the initial capital plus the realized_pnl of all the closed
   positions, and the size debited for each position equals the cost basis of
   its sells. *)
C32_CashConserved ==
    active_trades = << >> =>
        /\ capital = InitialCapital + RealizedPnl(Len(trades))
        /\ \A i \in TradeIds : trades[i].position_size_usd = SoldCost(sells, i)

(* The stop phase of a tick with the statements of engine.py:164-191 in the
   other order: the stop check first, against the stop level the tick starts
   with, then the 15-minute floor, then the trailing stop, then the
   break-even move of TP1.  The result is the decision and the stop level. *)
CheckFirst(trade, current_price, t) ==
    LET entry == trade.entry_price
        ath == IF current_price > trade.ath_price THEN current_price ELSE trade.ath_price
        sl1 == HardStop(trade.stop_loss_price, entry, t - trade.entry_time)
        sl2 == TrailingStop(sl1, entry, ath)
        sl3 == IF (current_price - entry) * 100 >= 40 * entry /\ ~trade.tp1_hit
               THEN Max(sl2, entry) ELSE sl2
    IN IF current_price <= trade.stop_loss_price
       THEN [closes |-> TRUE, stop |-> trade.stop_loss_price]
       ELSE [closes |-> FALSE, stop |-> sl3]

(* C33: on every backtest tick that evaluates a position against a sample,
   checking the stop before the steps that raise it gives what the code, which
   checks it after them, does: the position is closed with STOP_LOSS in the one
   exactly when it is in the other, and the stop level after the tick is the
   same. *)
C33_StopCheckOrder ==
    [][\A i \in TradeIds :
          (BacktestTick /\ WasActive(i) /\ px'[trades[i].token_address] # NoSample) =>
            LET cf == CheckFirst(trades[i], px'[trades[i].token_address], current_time)
            IN /\ cf.closes <=> (/\ trades'[i].status = "CLOSED"
                                  /\ trades'[i].exit_reason = "STOP_LOSS")
               /\ trades'[i].stop_loss_price = cf.stop]_vars

(* A position whose stop a tick had raised above its initial level, to 35%
   below the peak, was closed by a later tick at that stop *)
C33_Witness ==
    /\ Backtest
    /\ \E i \in TradeIds :
         /\ trades[i].status = "CLOSED" /\ trades[i].exit_reason = "STOP_LOSS"
         /\ trades[i].stop_loss_price * 100 = 65 * trades[i].ath_price
         /\ trades[i].stop_loss_price > trades[i].entry_price
         /\ \E k \in SellsOf(i, "STOP_LOSS") :
              /\ sells[k].units > 0
              /\ sells[k].proceeds > sells[k].cost

(* The step admits a position *)
Admitted == Backtest /\ Len(trades') = Len(trades) + 1

(* C34: a backtest step runs its phases in the order day reset, advance of
   the active positions, admission of the due signals, equity sample.  The day
   fields change only in the first phase, positions are sold and closed only
   in the second, which directly follows the first, positions are admitted
   only in the third, against the active set as the second phase left it, and
   the sample is appended last, with the step to a later minute.  An admitted
   position is untouched when its step ends: no price has been looked up for
   it, and the next advance is at a later minute. *)
C34_PhaseOrder ==
    [][Backtest =>
         /\ pc' # pc =>
               \/ pc = "day" /\ pc' \in {"update", "done"}
               \/ pc = "update" /\ pc' = "signals"
               \/ pc = "signals" /\ pc' \in {"day", "raised"}
         /\ (current_day' # current_day \/ daily_start_equity' # daily_start_equity)
               => pc = "day" /\ pc' = "update"
         /\ (sells' # sells \/ px' # px) => pc = "update"
         /\ (\E i \in TradeIds : trades'[i] # trades[i]) => pc = "update"
         /\ Admitted =>
               /\ pc = "signals" /\ pc' = "signals"
               /\ Len(active_trades) < MaxTrades
               /\ current_time' = current_time
               /\ LET new == trades'[Len(trades')]
                  IN /\ new.status = "OPEN"
                     /\ new.ath_price = new.entry_price
                     /\ new.realized_pnl = 0
                     /\ ~new.tp1_hit /\ ~new.tp2_hit /\ ~new.tp3_hit
         /\ equity_curve' # equity_curve
               => /\ pc = "signals" /\ pc' = "day"
                  /\ Len(equity_curve') = Len(equity_curve) + 1
                  /\ current_time' > current_time
         /\ current_time' # current_time => equity_curve' # equity_curve]_vars

(* Four positions were active when a step began; its advance closed one of
   them and the same step admitted the signal of that minute in its place *)
C34_Witness ==
    /\ Backtest /\ pc = "signals"
    /\ Len(trades) = MaxTrades + 1
    /\ Len(active_trades) = MaxTrades
    /\ trades[Len(trades)].status = "OPEN"
    /\ trades[Len(trades)].entry_time = current_time
    /\ \E i \in 1..MaxTrades :
         /\ trades[i].status = "CLOSED"
         /\ trades[i].exit_time = current_time

(* The tiers of the engine, the tier a take-profit reason names, and whether
   every tier of trade i has fired *)
Tiers == IF Backtest THEN BacktestTiers ELSE PaperTiers
TierOf(reason) == CHOOSE k \in 1..Len(Tiers) : Tiers[k].reason = reason
AllTiersFired(i) ==
    IF Backtest THEN trades[i].tp1_hit /\ trades[i].tp2_hit /\ trades[i].tp3_hit
    ELSE \A k \in 1..Len(PaperTiers) : LevelHit(trades[i], PaperTiers[k].threshold)

(* The units a tier sells of trade i: its percentage of the initial units *)
TierUnits(i, k) == (InitialUnits(i) * Tiers[k].pct) \div 100

(* C35: take-profit tiers alone never close a position.  Every take-profit
   sell is of the tier's full fraction of the initial units (the cap at the
   remaining units does not bind); a CLOSED position was closed by a stop,
   time or end-of-data exit, an OPEN one has only take-profit sells and, if it
   ever held units, still holds some; and an OPEN position on which every tier
   has fired holds the initial units less the three fractions: 10% of them
   in the backtest, 25% in paper mode (up to one model unit per sale). *)
C35_TiersNeverClose ==
    \A i \in TradeIds :
        /\ \A k \in 1..Len(sells) :
              (sells[k].trade = i /\ sells[k].reason \in TakeProfitReasons)
                => sells[k].units = TierUnits(i, TierOf(sells[k].reason))
        /\ trades[i].status = "CLOSED" => trades[i].exit_reason \notin TakeProfitReasons
        /\ trades[i].status = "OPEN" =>
              /\ \A k \in 1..Len(sells) :
                    sells[k].trade = i => sells[k].reason \in TakeProfitReasons
              /\ InitialUnits(i) > 0 => trades[i].current_units > 0
        /\ (trades[i].status = "OPEN" /\ AllTiersFired(i)) =>
              LET keep == IF Backtest THEN 10 ELSE 25
              IN /\ trades[i].current_units
                      = InitialUnits(i) - TierUnits(i, 1) - TierUnits(i, 2) - TierUnits(i, 3)
                 /\ trades[i].current_units * 100 >= keep * InitialUnits(i)
                 /\ trades[i].current_units * 100 < keep * InitialUnits(i) + 300

(* Every tier has fired on a position that is still open and holds units *)
C35_Witness ==
    \E i \in TradeIds :
        /\ trades[i].status = "OPEN"
        /\ AllTiersFired(i)
        /\ trades[i].current_units > 0
        /\ Cardinality({ k \in 1..Len(sells) : sells[k].trade = i /\ sells[k].units > 0 }) = 3

(* C36: once TP1 has fired on a backtest position its stop is at or above
   the entry price for the rest of its life, and when it is closed its
   realized_pnl is not negative. *)
C36_BreakEvenSecured ==
    \A i \in TradeIds :
        (Backtest /\ trades[i].tp1_hit) =>
            /\ trades[i].stop_loss_price >= trades[i].entry_price
            /\ trades[i].status = "CLOSED" => trades[i].realized_pnl >= 0

====
